---- MODULE Spec2Model ----
(***************************************************************************)
(* k8psh: one connection between a client (Process::runRemoteCommand), a   *)
(* per-connection server worker (Process::run, POSIX branch) and the child *)
(* process the worker spawns.  The socket carries bytes; frames are        *)
(* encoded and decoded as BufferedSendSocket / BufferedReceiveSocket do.   *)
(***************************************************************************)
EXTENDS Integers, Sequences, FiniteSets, TLC

(***************************************************************************)
(* Bounds of the model.                                                    *)
(***************************************************************************)
\* number of tail arguments of the client invocation
MaxArgs == 1
\* number of non-empty reads the client's local stdin delivers
MaxStdinReads == 1
\* number of bytes the child writes to stdout and stderr together
MaxChildOutput == 1
\* number of frames the raw peer writes
MaxRawFrames == 2
\* number of clients that connect to the listener
MaxClients == 2
\* number of milliseconds the clock advances
MaxTime == 2
\* number of lines of a configuration text
MaxLines == 4
\* number of arguments of the server's command line
MaxServerArgs == 3

(***************************************************************************)
(* enum PayloadType                                                        *)
(***************************************************************************)
WORKING_DIRECTORY == 0
ENVIRONMENT_VARIABLE == 1
COMMAND_ARGUMENT == 2
START_COMMAND == 3
STDIN_DATA == 4
STDOUT_DATA == 5
STDERR_DATA == 6
TERMINATE_COMMAND == 7
EXIT_CODE == 8
\* a type byte outside the enum
UNKNOWN_TYPE == 9

DATA_BUFFER_SIZE == 1024 * 64
INITIAL_MTU_SIZE == 8192

(***************************************************************************)
(* Strings are sequences of byte values.                                   *)
(***************************************************************************)
EQUALS == 61
QUESTION == 63

\* the value of a variable that is not set
None == <<-1>>

\* the command of the configuration the client invokes ("c X ?Y =Z /bin/c")
Command ==
    [name |-> <<99>>,
     environment |-> << [first |-> <<88>>, second |-> <<>>],
                        [first |-> <<QUESTION, 89>>, second |-> <<>>],
                        [first |-> <<EQUALS, 90>>, second |-> <<>>] >>]

\* two more declarations of the command, with declared values: "c ?X
\* Y=${Z:-d} =Z=f /bin/c" and "c ?Y=f =X=${Y} Z /bin/c"
CommandsWithValues ==
    { [name |-> <<99>>,
       environment |-> << [first |-> <<QUESTION, 88>>, second |-> <<>>],
                          [first |-> <<89>>, second |-> <<36, 123, 90, 58, 45, 100, 125>>],
                          [first |-> <<EQUALS, 90>>, second |-> <<102>>] >>],
      [name |-> <<99>>,
       environment |-> << [first |-> <<QUESTION, 89>>, second |-> <<102>>],
                          [first |-> <<EQUALS, 88>>, second |-> <<36, 123, 89, 125>>],
                          [first |-> <<90>>, second |-> <<>>] >>] }

\* declarations that name a variable more than once: "c X=1 ?X /bin/c",
\* "c ?X Y X=f /bin/c", "c =Y=f Y ?X /bin/c" and "c X=1 =X /bin/c"
CommandsWithRepeats ==
    { [name |-> <<99>>,
       environment |-> << [first |-> <<88>>, second |-> <<49>>],
                          [first |-> <<QUESTION, 88>>, second |-> <<>>] >>],
      [name |-> <<99>>,
       environment |-> << [first |-> <<QUESTION, 88>>, second |-> <<>>],
                          [first |-> <<89>>, second |-> <<>>],
                          [first |-> <<88>>, second |-> <<102>>] >>],
      [name |-> <<99>>,
       environment |-> << [first |-> <<EQUALS, 89>>, second |-> <<102>>],
                          [first |-> <<89>>, second |-> <<>>],
                          [first |-> <<QUESTION, 88>>, second |-> <<>>] >>],
      [name |-> <<99>>,
       environment |-> << [first |-> <<88>>, second |-> <<49>>],
                          [first |-> <<EQUALS, 88>>, second |-> <<>>] >>] }

\* the name of a command the configuration declares for another host
OtherCommandName == <<100>>

\* the name the server identifies itself with (--name)
ServerName == "server"

\* Configuration::_hostCommands: the command names declared under each host
HostCommands ==
    [h \in {"server", "other"} |->
        IF h = "server" THEN {Command.name} ELSE {OtherCommandName}]

\* Configuration::getCommands(): the commands of every host
GetCommands == UNION {HostCommands[h] : h \in DOMAIN HostCommands}

\* the command map handed to Process::run
ServerCommands_AllHosts == GetCommands

ServerCommands == HostCommands[ServerName]

\* the tail arguments of the client invocation ("a", "b", ...)
TailArguments == [i \in 1..MaxArgs |-> <<96 + i>>]

\* working directory of the client relative to the base directory
ClientWorkingDirectory == <<119>>

\* the bytes the n-th non-empty read of the client's local stdin delivers
StdinChunk(n) == << (2 * n) % 256, (2 * n + 1) % 256 >>

\* the n-th byte the child writes to its output streams
OutputByte(n) == n % 256

\* exit statuses of the child (WEXITSTATUS)
ExitStatuses == {0, 42}

Streams == {"out", "err"}

Min(a, b) == IF a < b THEN a ELSE b

Drop(s, n) == SubSeq(s, n + 1, Len(s))

Take(s, n) == SubSeq(s, 1, n)

IsPrefix(p, s) == Len(p) <= Len(s) /\ Take(s, Len(p)) = p

(***************************************************************************)
(* Frame encoding: BufferedSendSocket::write, BufferedReceiveSocket::read  *)
(***************************************************************************)
\* the four bytes of a 32-bit value, least significant first
U32LE(n) ==
    << n % 256, (n \div 256) % 256, (n \div 65536) % 256, (n \div 16777216) % 256 >>

Header(type, length) == <<type>> \o U32LE(length)

\* the bytes of one payload: 5-byte header, then the string
Frame(type, string) == Header(type, Len(string)) \o string

\* the uint32 BufferedReceiveSocket::read decodes from bytes b[i+1..i+4],
\* kept as its high byte and its low 24 bits
ReadU32(b, i) ==
    [high |-> b[i + 4], low |-> b[i + 1] + b[i + 2] * 256 + b[i + 3] * 65536]

\* the value as a length (std::size_t)
Length(v) == v.high * 16777216 + v.low

\* int(payloadValue)
ToInt(v) ==
    IF v.high >= 128 THEN (v.high - 256) * 16777216 + v.low
    ELSE v.high * 16777216 + v.low

\* the five bytes the server writes for the exit code
ExitCodeFrame_BigEndian(exitCode) ==
    <<EXIT_CODE, (exitCode \div 16777216) % 256, (exitCode \div 65536) % 256,
      (exitCode \div 256) % 256, exitCode % 256>>

ExitCodeFrame(exitCode) == <<EXIT_CODE>> \o U32LE(exitCode)

\* BufferedSendSocket::write: the new buffer and the bytes handed to the socket
SendWrite(data, type, string, flush) ==
    LET noRoom == 5 + Len(string) > INITIAL_MTU_SIZE - Len(data)
        first == IF noRoom THEN data ELSE <<>>
        kept == IF noRoom THEN <<>> ELSE data
        appended == kept \o Frame(type, string)
    IN  IF flush THEN [data |-> <<>>, sent |-> first \o appended]
        ELSE [data |-> appended, sent |-> first]

(***************************************************************************)
(* The wire format, as documented at enum PayloadType: a type byte and a   *)
(* 4-byte little-endian value; the value is the length of the string that  *)
(* follows, except for EXIT_CODE (the exit code), TERMINATE_COMMAND and    *)
(* the server's STDIN_DATA (zeros).  An incomplete last frame is left out. *)
(***************************************************************************)
HasString(type, fromServer) ==
    /\ type \notin {TERMINATE_COMMAND, EXIT_CODE}
    /\ ~(fromServer /\ type = STDIN_DATA)

RECURSIVE ParseFrames(_, _)
ParseFrames(bytes, fromServer) ==
    IF Len(bytes) < 5 THEN <<>>
    ELSE LET type == bytes[1]
             value == ReadU32(bytes, 1)
             length == IF HasString(type, fromServer) THEN Length(value) ELSE 0
         IN  IF Len(bytes) < 5 + length THEN <<>>
             ELSE << [type |-> type, value |-> value,
                      string |-> SubSeq(bytes, 6, 5 + length)] >>
                  \o ParseFrames(Drop(bytes, 5 + length), fromServer)

\* the offsets of the stream at which a frame starts or ends
RECURSIVE FrameBoundaries(_, _, _)
FrameBoundaries(bytes, fromServer, offset) ==
    IF Len(bytes) < 5 THEN {offset}
    ELSE LET length == IF HasString(bytes[1], fromServer) THEN Length(ReadU32(bytes, 1)) ELSE 0
         IN  IF Len(bytes) < 5 + length THEN {offset}
             ELSE {offset} \cup FrameBoundaries(Drop(bytes, 5 + length), fromServer,
                                                offset + 5 + length)

RECURSIVE Concat(_)
Concat(strings) ==
    IF strings = <<>> THEN <<>> ELSE Head(strings) \o Concat(Tail(strings))

RECURSIVE SelectStrings(_, _)
SelectStrings(frames, type) ==
    IF frames = <<>> THEN <<>>
    ELSE (IF Head(frames).type = type /\ Head(frames).string # <<>>
          THEN <<Head(frames).string>> ELSE <<>>)
         \o SelectStrings(Tail(frames), type)

CountType(frames, type) == Cardinality({i \in 1..Len(frames) : frames[i].type = type})

(***************************************************************************)
(* State                                                                   *)
(***************************************************************************)
VARIABLES
    \* the client's invocation: tail arguments and environment, and the
    \* command of the configuration it invokes
    argv, clientEnv, command,
    \* the socket: every byte written in each direction, and whether each
    \* end is closed
    c2s, s2c, cClosed, sClosed,
    \* client (runRemoteCommand): position, loop index, send buffer,
    \* receive buffer bounds, pollSet[0].fd != -1, stream eof bits, bytes
    \* written to the local streams, returned exit code, pending string
    cpc, ci, csbuf, cliEnd, cliConsumed, cStdinFd, cinEof, coutEof, cOut,
    cExit, cNeed, cStream, stdinReads,
    \* number of frames the raw peer has written
    rawFrames,
    \* server worker (Process::run): position, receive buffer bounds, frame
    \* being read, prologue data
    spc, ssbuf, srvEnd, srvConsumed, sType, sNeed,
    processDirectory, receivedEnvironmentVariables, arguments, commandName,
    \* the environment strings built for the child
    environment,
    \* relay loop state
    stdInInput, pipeOutput, processHasExited, stdInData, closeStdIn,
    exitStatus, killSent,
    \* child process and its pipes
    child, childStatus, childStdinOpen, childOutOpen, pipe, childWrote,
    \* observations: bytes written to the child's stdin, strings of the
    \* STDIN_DATA frames appended to stdInData, which line closed the
    \* stdin pipe, types of the frames the server has read
    stdinWritten, stdinAccepted, stdinCloseCause, srvFrames,
    \* mainServer: position, options (--background, --keep-client-executables,
    \* --no-wait, --max-connections, --timeout), deadline, locals of the loop
    mpc, daemonize, keepClientExecutables, waitOnClientConnections,
    maxConnections, timeoutMs, endTime, connectionCount, remainingMs,
    \* the steady clock
    now,
    \* the exit channel: whether the server process still holds the pipe's
    \* input end open
    exitInput,
    \* the listener: connections waiting to be accepted, clients that have
    \* connected so far, accepts that returned no valid socket
    pending, connected, invalidAccepts,
    \* the forked connection workers: state of each, whether it holds a copy
    \* of the exit channel's input end, and the remainingMs of the loop
    \* iteration that accepted its connection
    workers,
    \* the file system: the created client executables and the PID file
    \* exist; which process deleted them
    createdExecutables, pidFile, deletedBy,
    \* Configuration::load: the text, the locals of the function (position,
    \* offset i, currentHost, currentPort) and the Configuration it fills
    configurationString, load, configuration,
    \* mainServer before the loop: argv[1..], the Host of the server's
    \* commands, and the locals the two passes over the arguments set
    serverArgv, serverHost, mainLocals,
    \* a call of substituteEnvironmentVariables: position, arguments, result
    substitution,
    \* a BufferedSendSocket and the BufferedReceiveSocket at the other end of
    \* its socket: the frames to write, both buffers, the bytes in flight
    buffered,
    \* runRemoteCommand up to its first write: position, the steady clock,
    \* the configured timeout, endTime, backoff, and the waits it has made
    connecting,
    \* a call of Utilities::relativizePath: position, arguments, result
    relativized,
    \* mainServer where every connection gets a thread: position of the main
    \* thread, waitOnClientConnections, connectionCount and the client
    \* threads in the order they were started (clientThread is the last)
    threading,
    \* the relay loops of the connections of one server process and their
    \* stdout reader threads: the named event objects of the system and the
    \* SynchronousData of every connection
    events

clientVars == <<cpc, ci, csbuf, cliEnd, cliConsumed, cStdinFd, cinEof, coutEof, cOut,
                cExit, cNeed, cStream, stdinReads>>

prologueVars == <<processDirectory, receivedEnvironmentVariables, arguments, commandName,
                  environment>>

relayVars == <<stdInInput, pipeOutput, processHasExited, stdInData, closeStdIn,
               exitStatus, killSent>>

serverVars == <<spc, ssbuf, srvEnd, srvConsumed, sType, sNeed, prologueVars, relayVars>>

childVars == <<child, childStatus, childStdinOpen, childOutOpen, pipe, childWrote>>

observedVars == <<stdinWritten, stdinAccepted, stdinCloseCause, srvFrames>>

mainVars == <<mpc, daemonize, keepClientExecutables, waitOnClientConnections,
              maxConnections, timeoutMs, endTime, connectionCount, remainingMs, now,
              exitInput, pending, connected, invalidAccepts, workers,
              createdExecutables, pidFile, deletedBy>>

loadVars == <<configurationString, load, configuration>>

argumentVars == <<serverArgv, serverHost, mainLocals>>

\* what precedes the accept loop and the sessions
\* the studies of single classes and functions
unitVars == <<buffered, connecting, relativized, threading, events>>

startupVars == <<loadVars, argumentVars, substitution, unitVars>>

\* what a session never changes: the invocation, the configuration and the
\* state of mainServer
configVars == <<argv, clientEnv, command, mainVars, startupVars>>

runVars == <<argv, clientEnv, command, c2s, s2c, cClosed, sClosed, clientVars,
             rawFrames, serverVars, childVars, observedVars>>

sessionVars == <<runVars, startupVars>>

vars == <<configVars, c2s, s2c, cClosed, sClosed, clientVars, rawFrames, serverVars,
          childVars, observedVars>>

\* mainServer when it enters the accept loop: the clock starts at 0, the
\* client executables and, for a daemon, the PID file were created
InitMain(backgrounds, keeps, waits, connections, timeouts) ==
    /\ mpc = "loop"
    /\ daemonize \in backgrounds
    /\ keepClientExecutables \in keeps
    /\ waitOnClientConnections \in waits
    /\ maxConnections \in connections
    /\ timeoutMs \in timeouts
    /\ endTime = (IF timeoutMs >= 0 THEN timeoutMs ELSE 0)
    /\ connectionCount = 0
    /\ remainingMs = 0
    /\ now = 0
    /\ exitInput = TRUE
    /\ pending = 0 /\ connected = 0 /\ invalidAccepts = 0
    /\ workers = <<>>
    /\ createdExecutables = TRUE
    /\ pidFile = daemonize
    /\ deletedBy = "none"

\* the names the command declares, with the client's value of each
ClientEnvironments ==
    { [n \in {<<88>>, <<89>>, <<90>>} |-> IF n = <<88>> THEN None ELSE <<118>>] }

\* the Host pointer before the first host section
NoHost == [hostname |-> None, port |-> 0, options |-> <<>>]

\* load() is not running
LoadIdle ==
    /\ configurationString = <<>>
    /\ load = [pc |-> "idle", i |-> 0, currentHost |-> NoHost, currentPort |-> 0]
    /\ configuration = [baseDirectory |-> <<>>, hostCommands |-> <<>>, commands |-> <<>>]

\* defaultPidFilename
DefaultPidFilename == "/run/k8pshd.pid"

\* the locals of mainServer at its entry
MainLocals ==
    [i |-> 1, deferredArgs |-> <<>>, deferredArgc |-> 0, ignoreInvalidArguments |-> FALSE,
     disableClientExecutables |-> FALSE, generateLocalExecutables |-> FALSE,
     overwriteClientExecutables |-> FALSE, config |-> "", name |-> "",
     directory |-> "", connections |-> "-1", pidFilename |-> DefaultPidFilename,
     timeout |-> "-1"]

\* the server was started without arguments
ArgumentsIdle ==
    /\ serverArgv = <<>>
    /\ serverHost = NoHost
    /\ mainLocals = MainLocals

\* substituteEnvironmentVariables is not running
SubstitutionIdle ==
    substitution = [pc |-> "idle", in |-> <<>>, overrides |-> <<>>, result |-> <<>>]

BufferedIdle == buffered = [pc |-> "idle"]

ConnectIdle == connecting = [pc |-> "idle"]

RelativizeIdle == relativized = [pc |-> "idle"]

ThreadsIdle == threading = [pc |-> "idle"]

EventsIdle == events = [pc |-> "idle"]

UnitsIdle ==
    BufferedIdle /\ ConnectIdle /\ RelativizeIdle /\ ThreadsIdle /\ EventsIdle

\* the state once the server has accepted the connection; the other end of
\* the socket is the k8psh client (position "wd") or a peer that writes
\* arbitrary frames (position "none")
InitRun(position, commands, environments) ==
    /\ argv = IF position = "none" THEN <<>> ELSE TailArguments
    /\ clientEnv \in environments
    /\ command \in commands
    /\ c2s = <<>> /\ s2c = <<>> /\ cClosed = FALSE /\ sClosed = FALSE
    /\ cpc = position
    /\ ci = 1 /\ csbuf = <<>> /\ cliEnd = 0 /\ cliConsumed = 0
    /\ cStdinFd = TRUE /\ cinEof = FALSE
    /\ coutEof = [s \in Streams |-> FALSE]
    /\ cOut = [s \in Streams |-> <<>>]
    /\ cExit = 0 /\ cNeed = 0 /\ cStream = "out" /\ stdinReads = 0
    /\ rawFrames = 0
    /\ spc = "prologue" /\ ssbuf = <<>> /\ srvEnd = 0 /\ srvConsumed = 0 /\ sType = 0 /\ sNeed = 0
    /\ processDirectory = <<>>
    /\ receivedEnvironmentVariables = <<>>
    /\ arguments = <<>>
    /\ commandName = <<>>
    /\ environment = <<>>
    /\ stdInInput = FALSE
    /\ pipeOutput = [s \in Streams |-> FALSE]
    /\ processHasExited = FALSE /\ stdInData = <<>> /\ closeStdIn = FALSE
    /\ exitStatus = [kind |-> "none", status |-> 0] /\ killSent = FALSE
    /\ child = "none" /\ childStatus = 0 /\ childStdinOpen = FALSE
    /\ childOutOpen = [s \in Streams |-> FALSE]
    /\ pipe = [s \in Streams |-> <<>>]
    /\ childWrote = [s \in Streams |-> <<>>]
    /\ stdinWritten = <<>> /\ stdinAccepted = <<>> /\ stdinCloseCause = "open"
    /\ srvFrames = <<>>

\* a session after a start of the programs that is not followed
InitSession(position, commands, environments) ==
    /\ InitRun(position, commands, environments)
    /\ LoadIdle
    /\ ArgumentsIdle
    /\ SubstitutionIdle
    /\ UnitsIdle

\* a session of a foreground server started without options
InitFrom(position, commands, environments) ==
    /\ InitMain({FALSE}, {FALSE}, {TRUE}, {-1}, {-1})
    /\ InitSession(position, commands, environments)

InitWith(position) == InitFrom(position, {Command}, ClientEnvironments)

\* the client's environment with each declared name unset, set to the
\* empty string or set to "v=w"
AllClientEnvironments ==
    [{<<88>>, <<89>>, <<90>>} -> {None, <<>>, <<118, EQUALS, 119>>}]

(***************************************************************************)
(* Client: Process::runRemoteCommand                                       *)
(***************************************************************************)
ClientEnded == {"returned", "aborted", "terminated", "killed"}

\* the number of bytes that reached the socket when the writing process is
\* killed inside Socket::write: send() took all but the last byte
KillPoints(bytes) == {k \in {Len(bytes) - 1} : 0 < k}

\* sendSocket.write on the client: the frame goes to the send buffer and,
\* when flushed, to the socket; a failed socket write is a LOG_ERROR, which
\* nothing catches; the process can be killed inside Socket::write
ClientWrite(type, string, flush, next) ==
    LET w == SendWrite(csbuf, type, string, flush)
    IN  \/ /\ csbuf' = w.data
           /\ c2s' = c2s \o w.sent
           /\ cpc' = next
           /\ UNCHANGED cClosed
        \/ /\ w.sent # <<>>
           /\ sClosed
           /\ cpc' = "terminated"
           /\ cClosed' = TRUE
           /\ UNCHANGED <<csbuf, c2s>>
        \/ /\ \E k \in KillPoints(w.sent) : c2s' = c2s \o Take(w.sent, k)
           /\ cpc' = "killed"
           /\ cClosed' = TRUE
           /\ UNCHANGED csbuf

ClientSendWorkingDirectory ==
    /\ cpc = "wd"
    /\ ClientWrite(WORKING_DIRECTORY, ClientWorkingDirectory, FALSE, "args")
    /\ UNCHANGED <<ci, cliEnd, cliConsumed, cStdinFd, cinEof, coutEof, cOut, cExit,
                   cNeed, cStream, stdinReads>>
    /\ UNCHANGED <<configVars, s2c, sClosed, rawFrames, serverVars, childVars,
                   observedVars>>

ClientSendArgument ==
    /\ cpc = "args"
    /\ IF ci <= Len(argv)
       THEN /\ ClientWrite(COMMAND_ARGUMENT, argv[ci], FALSE, "args")
            /\ ci' = ci + 1
       ELSE /\ cpc' = "env"
            /\ ci' = 1
            /\ UNCHANGED <<csbuf, c2s, cClosed>>
    /\ UNCHANGED <<cliEnd, cliConsumed, cStdinFd, cinEof, coutEof, cOut, cExit,
                   cNeed, cStream, stdinReads>>
    /\ UNCHANGED <<configVars, s2c, sClosed, rawFrames, serverVars, childVars,
                   observedVars>>

\* the string of the ENVIRONMENT_VARIABLE frame for a variable that is set
EnvironmentVariableString_NameOnly(name, value) == name

EnvironmentVariableString(name, value) == name \o <<EQUALS>> \o value

ClientSendEnvironmentVariable ==
    /\ cpc = "env"
    /\ IF ci <= Len(command.environment)
       THEN LET spec == command.environment[ci].first
                name == IF spec[1] = QUESTION THEN Tail(spec) ELSE spec
            IN  /\ IF spec[1] # EQUALS /\ clientEnv[name] # None
                   THEN ClientWrite(ENVIRONMENT_VARIABLE,
                                    EnvironmentVariableString(name, clientEnv[name]),
                                    FALSE, "env")
                   ELSE UNCHANGED <<csbuf, c2s, cClosed, cpc>>
                /\ ci' = ci + 1
       ELSE /\ cpc' = "start"
            /\ UNCHANGED <<ci, csbuf, c2s, cClosed>>
    /\ UNCHANGED <<cliEnd, cliConsumed, cStdinFd, cinEof, coutEof, cOut, cExit,
                   cNeed, cStream, stdinReads>>
    /\ UNCHANGED <<configVars, s2c, sClosed, rawFrames, serverVars, childVars,
                   observedVars>>

ClientSendStartCommand ==
    /\ cpc = "start"
    /\ ClientWrite(START_COMMAND, command.name, TRUE, "poll")
    /\ UNCHANGED <<ci, cliEnd, cliConsumed, cStdinFd, cinEof, coutEof, cOut, cExit,
                   cNeed, cStream, stdinReads>>
    /\ UNCHANGED <<configVars, s2c, sClosed, rawFrames, serverVars, childVars,
                   observedVars>>

\* BufferedReceiveSocket::hasBufferedData / hasData on the client, for a
\* buffer that holds the bytes of the stream from consumed up to end
ClientHasBufferedData(consumed, end) == consumed # end

ClientHasData(consumed, end) ==
    ClientHasBufferedData(consumed, end) \/ end < Len(s2c) \/ sClosed

\* the end of the client's buffer once it holds the bytes a read asks for:
\* Socket::read is called when the buffer cannot satisfy the request
ClientFill(need) ==
    IF cliEnd - cliConsumed >= need THEN cliEnd
    ELSE Min(Len(s2c), cliEnd + INITIAL_MTU_SIZE)

\* what the read of the local stdin does to pollSet[0].fd on end of file
StdinFdAfterEof_Kept == TRUE

StdinFdAfterEof == FALSE

\* one pass of the relay loop up to the socket branch: poll, then the read
\* of the local stdin when it is readable
ClientPoll ==
    /\ cpc = "poll"
    /\ LET socketReady == cliEnd < Len(s2c) \/ sClosed
           enter == socketReady \/ ClientHasBufferedData(cliConsumed, cliEnd)
           next == IF enter THEN "frame" ELSE "poll"
       IN  \/ /\ enter
              /\ cpc' = next
              /\ UNCHANGED <<csbuf, c2s, cClosed, cStdinFd, stdinReads>>
           \/ /\ cStdinFd /\ ~cinEof
              /\ stdinReads < MaxStdinReads
              /\ ClientWrite(STDIN_DATA, StdinChunk(stdinReads), TRUE, next)
              /\ stdinReads' = stdinReads + 1
              /\ UNCHANGED cStdinFd
           \/ /\ cStdinFd /\ ~cinEof
              /\ cStdinFd' = StdinFdAfterEof
              /\ ClientWrite(STDIN_DATA, <<>>, TRUE, next)
              /\ UNCHANGED stdinReads
    /\ UNCHANGED <<ci, cliEnd, cliConsumed, cinEof, coutEof, cOut, cExit, cNeed, cStream>>
    /\ UNCHANGED <<configVars, s2c, sClosed, rawFrames, serverVars, childVars,
                   observedVars>>

\* what the client does when the header read finds the socket closed
SocketClosedOutcome_Return == "returned"

SocketClosedOutcome == "aborted"

\* receiveSocket.read returns false: std::abort()
ClientSocketClosed ==
    /\ cpc = "frame"
    /\ Len(s2c) - cliConsumed < 5
    /\ sClosed
    /\ cpc' = SocketClosedOutcome
    /\ cExit' = IF SocketClosedOutcome = "returned" THEN 0 ELSE cExit
    /\ cClosed' = TRUE
    /\ cliEnd' = Len(s2c)
    /\ UNCHANGED <<ci, csbuf, cliConsumed, cStdinFd, cinEof, coutEof, cOut,
                   cNeed, cStream, stdinReads>>
    /\ UNCHANGED <<configVars, c2s, s2c, sClosed, rawFrames, serverVars, childVars,
                   observedVars>>

\* readString finds the socket closed: LOG_ERROR, which nothing catches
ClientStringClosed ==
    /\ cpc = "payload"
    /\ Len(s2c) - cliConsumed < cNeed
    /\ sClosed
    /\ cpc' = "terminated"
    /\ cClosed' = TRUE
    /\ cliEnd' = Len(s2c)
    /\ UNCHANGED <<ci, csbuf, cliConsumed, cStdinFd, cinEof, coutEof, cOut,
                   cExit, cNeed, cStream, stdinReads>>
    /\ UNCHANGED <<configVars, c2s, s2c, sClosed, rawFrames, serverVars, childVars,
                   observedVars>>

StreamOf(type) == IF type = STDOUT_DATA THEN "out" ELSE "err"

\* one pass of the frame loop: read a header and dispatch on its type
ClientFrame ==
    /\ cpc = "frame"
    /\ ClientFill(5) - cliConsumed >= 5
    /\ LET type == s2c[cliConsumed + 1]
           payloadValue == ReadU32(s2c, cliConsumed + 1)
           length == Length(payloadValue)
           next == IF ClientHasData(cliConsumed + 5, ClientFill(5)) THEN "frame" ELSE "poll"
       IN  /\ cliConsumed' = cliConsumed + 5
           /\ cliEnd' = ClientFill(5)
           /\ CASE type = STDIN_DATA ->
                     /\ cinEof' = TRUE
                     /\ cpc' = next
                     /\ UNCHANGED <<coutEof, cExit, cNeed, cStream, cClosed>>
                [] type \in {STDOUT_DATA, STDERR_DATA} ->
                     LET s == StreamOf(type)
                     IN  IF coutEof[s] /\ length > 0
                         THEN /\ cpc' = "terminated"
                              /\ cClosed' = TRUE
                              /\ UNCHANGED <<cinEof, coutEof, cExit, cNeed, cStream>>
                         ELSE IF length > 0
                         THEN /\ cpc' = "payload"
                              /\ cNeed' = length
                              /\ cStream' = s
                              /\ UNCHANGED <<cinEof, coutEof, cExit, cClosed>>
                         ELSE /\ coutEof' = [coutEof EXCEPT ![s] = TRUE]
                              /\ cpc' = next
                              /\ UNCHANGED <<cinEof, cExit, cNeed, cStream, cClosed>>
                [] type = EXIT_CODE ->
                     /\ cpc' = "returned"
                     /\ cExit' = ToInt(payloadValue)
                     /\ cClosed' = TRUE
                     /\ UNCHANGED <<cinEof, coutEof, cNeed, cStream>>
                [] OTHER ->
                     /\ cpc' = "terminated"
                     /\ cClosed' = TRUE
                     /\ UNCHANGED <<cinEof, coutEof, cExit, cNeed, cStream>>
    /\ UNCHANGED <<ci, csbuf, cStdinFd, cOut, stdinReads>>
    /\ UNCHANGED <<configVars, c2s, s2c, sClosed, rawFrames, serverVars, childVars,
                   observedVars>>

\* outputStdStreamData with length > 0: readString, then fwrite
ClientString ==
    /\ cpc = "payload"
    /\ ClientFill(cNeed) - cliConsumed >= cNeed
    /\ cOut' = [cOut EXCEPT ![cStream] = @ \o SubSeq(s2c, cliConsumed + 1, cliConsumed + cNeed)]
    /\ cliConsumed' = cliConsumed + cNeed
    /\ cliEnd' = ClientFill(cNeed)
    /\ cpc' = IF ClientHasData(cliConsumed + cNeed, ClientFill(cNeed)) THEN "frame" ELSE "poll"
    /\ UNCHANGED <<ci, csbuf, cStdinFd, cinEof, coutEof, cExit, cNeed, cStream,
                   stdinReads>>
    /\ UNCHANGED <<configVars, c2s, s2c, cClosed, sClosed, rawFrames, serverVars,
                   childVars, observedVars>>

\* the client process is killed from outside while it waits in poll(); its
\* socket closes
ClientKilled ==
    /\ cpc = "poll"
    /\ cpc' = "killed"
    /\ cClosed' = TRUE
    /\ UNCHANGED <<ci, csbuf, cliEnd, cliConsumed, cStdinFd, cinEof, coutEof, cOut,
                   cExit, cNeed, cStream, stdinReads>>
    /\ UNCHANGED <<configVars, c2s, s2c, sClosed, rawFrames, serverVars, childVars,
                   observedVars>>

(***************************************************************************)
(* A peer that writes arbitrary frames to the server                       *)
(***************************************************************************)
RawStrings(type) ==
    IF type = START_COMMAND THEN GetCommands
    ELSE IF type = STDIN_DATA THEN {<<>>, <<0>>}
    ELSE {<<>>}

RawSend ==
    /\ cpc = "none"
    /\ ~cClosed
    /\ rawFrames < MaxRawFrames
    /\ \E type \in WORKING_DIRECTORY..UNKNOWN_TYPE :
         \E string \in RawStrings(type) : c2s' = c2s \o Frame(type, string)
    /\ rawFrames' = rawFrames + 1
    /\ UNCHANGED <<configVars, s2c, cClosed, sClosed, clientVars, serverVars, childVars,
                   observedVars>>

\* the peer closes the socket, possibly inside a frame
RawClose ==
    /\ cpc = "none"
    /\ ~cClosed
    /\ cClosed' = TRUE
    /\ \/ UNCHANGED c2s
       \/ /\ rawFrames < MaxRawFrames
          /\ \E type \in {COMMAND_ARGUMENT, STDIN_DATA} :
               c2s' = c2s \o Header(type, 1)
    /\ UNCHANGED <<configVars, s2c, sClosed, clientVars, rawFrames, serverVars,
                   childVars, observedVars>>

(***************************************************************************)
(* Server worker: Process::run                                             *)
(***************************************************************************)
ServerEnded == {"done", "error", "terminated", "killed"}

\* the base directory of the configuration
BaseDirectory == <<98>>

SLASH == 47

\* the server's own environment
ServerEnvironment == [n \in {<<89>>, <<90>>} |-> <<115>>]

ServerGetenv(name) ==
    IF name \in DOMAIN ServerEnvironment THEN ServerEnvironment[name] ELSE None

\* the position of the first "=" of a string, 0 when there is none
RECURSIVE FindEquals(_, _)
FindEquals(string, i) ==
    IF i > Len(string) THEN 0
    ELSE IF string[i] = EQUALS THEN i
    ELSE FindEquals(string, i + 1)

(***************************************************************************)
(* Utilities::substituteEnvironmentVariables.  Offsets are 0-based as in   *)
(* the code; Len(in) stands for std::string::npos.                         *)
(***************************************************************************)
DOLLAR == 36
LBRACE == 123
RBRACE == 125
COLON == 58
MINUS == 45

\* the bytes c with VALID_ENV_NAME_CHARS[c] != 0
ValidEnvNameChars ==
    {32, 40, 41, 45, 46} \cup (48..58) \cup (65..90) \cup {95} \cup (97..122) \cup {RBRACE}

\* in[i], which is 0 at i = in.length()
CharAt(in, i) == IF i < Len(in) THEN in[i + 1] ELSE 0

\* in.find("${", i)
RECURSIVE FindDollarBrace(_, _)
FindDollarBrace(in, i) ==
    IF i + 1 >= Len(in) THEN Len(in)
    ELSE IF in[i + 1] = DOLLAR /\ in[i + 2] = LBRACE THEN i
    ELSE FindDollarBrace(in, i + 1)

\* in.find(c, i)
RECURSIVE FindChar(_, _, _)
FindChar(in, c, i) ==
    IF i >= Len(in) THEN Len(in)
    ELSE IF in[i + 1] = c THEN i
    ELSE FindChar(in, c, i + 1)

\* the offset at which the scan of a variable name stops: the first byte
\* that is not a name byte, or ":" or "}", or the end of the string
RECURSIVE ScanName(_, _)
ScanName(in, i) ==
    IF i >= Len(in) THEN Len(in)
    ELSE IF in[i + 1] \notin ValidEnvNameChars \/ in[i + 1] \in {COLON, RBRACE} THEN i
    ELSE ScanName(in, i + 1)

\* the lookup in the wrong order: the process environment before the override
GetEnvironmentVariable_EnvironmentFirst(overrides, name) ==
    IF ServerGetenv(name) # None THEN ServerGetenv(name)
    ELSE IF name \in DOMAIN overrides THEN overrides[name] ELSE None

\* Utilities::getEnvironmentVariable(overrides, name): the override when it
\* is present, the process environment otherwise
GetEnvironmentVariable(overrides, name) ==
    IF name \in DOMAIN overrides /\ overrides[name] # None THEN overrides[name]
    ELSE ServerGetenv(name)

\* the outer loop of substituteEnvironmentVariables from offset i, with the
\* copy position at and the result built so far
RECURSIVE SubstituteFrom(_, _, _, _, _)
SubstituteFrom(in, overrides, i, at, result) ==
    IF i >= Len(in) THEN result \o SubSeq(in, at + 1, Len(in))
    ELSE LET dollar == FindDollarBrace(in, i)
             copied == result \o SubSeq(in, at + 1, dollar)
         IN  IF dollar >= Len(in) THEN copied
             ELSE LET envNameOffset == dollar + 2
                      stop == ScanName(in, envNameOffset)
                      envName == SubSeq(in, envNameOffset + 1, stop)
                      value == GetEnvironmentVariable(overrides, envName)
                  IN  IF stop < Len(in) /\ in[stop + 1] = COLON /\ CharAt(in, stop + 1) = MINUS
                      THEN LET defaultOffset == stop + 2
                               end == FindChar(in, RBRACE, defaultOffset)
                           IN  IF end >= Len(in)
                               THEN copied \o SubSeq(in, dollar + 1, Len(in))
                               ELSE SubstituteFrom(in, overrides, end + 1, end + 1,
                                        copied \o (IF value # None THEN value
                                                   ELSE SubSeq(in, defaultOffset + 1, end)))
                      ELSE IF stop < Len(in) /\ in[stop + 1] = RBRACE
                      THEN SubstituteFrom(in, overrides, stop + 1, stop + 1,
                               copied \o (IF value # None THEN value ELSE <<>>))
                      ELSE SubstituteFrom(in, overrides, stop, dollar, copied)

SubstituteEnvironmentVariables(in, overrides) ==
    SubstituteFrom(in, overrides, 0, 0, <<>>)

(***************************************************************************)
(* The environment of the child: Process::run, between the command lookup  *)
(* and the fork.  A map is a function from names to values; None is an     *)
(* OptionalString that does not exist.                                     *)
(***************************************************************************)
\* map[name] = value
Assign(map, name, value) ==
    [n \in DOMAIN map \cup {name} |-> IF n = name THEN value ELSE map[n]]

\* the prologue's case ENVIRONMENT_VARIABLE: a string without "=" is stored
\* with the server's own value unless the name is already there (emplace),
\* a string "name=value" replaces what was stored
ReceiveEnvironmentVariable(received, string) ==
    LET equals == FindEquals(string, 1)
        name == IF equals = 0 THEN string ELSE Take(string, equals - 1)
        own == ServerGetenv(name)
    IN  IF equals = 0
        THEN (IF name \in DOMAIN received THEN received
              ELSE Assign(received, name, IF own = None THEN <<>> ELSE own))
        ELSE Assign(received, name, Drop(string, equals))

\* the variable a declaration is about
DeclarationName(first) ==
    IF first[1] \in {EQUALS, QUESTION} THEN Tail(first) ELSE first

\* the value of a user-provided variable (declared "?NAME" or "NAME")
UserProvided_Declared(received, isOptional, name, second, built) ==
    IF second = <<>> /\ isOptional THEN GetEnvironmentVariable(built, name)
    ELSE SubstituteEnvironmentVariables(second, built)

UserProvided(received, isOptional, name, second, built) ==
    IF name \in DOMAIN received THEN received[name]
    ELSE IF second = <<>> /\ isOptional THEN GetEnvironmentVariable(built, name)
    ELSE SubstituteEnvironmentVariables(second, built)

\* the body of the first loop over the declarations: the map after one
\* declaration is resolved
ResolveDeclaration_ClientFirst(decl, received, built) ==
    LET name == DeclarationName(decl.first)
    IN  Assign(built, name,
               UserProvided(received, decl.first[1] = QUESTION, name, decl.second, built))

ResolveDeclaration(decl, received, built) ==
    IF decl.first[1] = EQUALS
    THEN LET name == Tail(decl.first)
         IN  Assign(built, name,
                    IF decl.second = <<>> THEN ServerGetenv(name)
                    ELSE SubstituteEnvironmentVariables(decl.second, built))
    ELSE LET isOptional == decl.first[1] = QUESTION
             name == IF isOptional THEN Tail(decl.first) ELSE decl.first
         IN  Assign(built, name,
                    UserProvided(received, isOptional, name, decl.second, built))

\* the first loop: environmentVariables after every declaration, in order
RECURSIVE ResolveAll(_, _, _)
ResolveAll(decls, received, built) ==
    IF decls = <<>> THEN built
    ELSE ResolveAll(Tail(decls), received, ResolveDeclaration(Head(decls), received, built))

\* a map that keeps the name whose string was emitted
EraseEmitted_Kept(built, name) == built

\* environmentVariables.erase(valueIt)
EraseEmitted(built, name) == [n \in DOMAIN built \ {name} |-> built[n]]

\* the second loop: one string "name=value" for the first declaration of
\* every name whose value exists; an emitted name is erased from the map
RECURSIVE EmitEnvironment(_, _)
EmitEnvironment(decls, built) ==
    IF decls = <<>> THEN <<>>
    ELSE LET name == DeclarationName(Head(decls).first)
         IN  IF name \in DOMAIN built /\ built[name] # None
             THEN <<name \o <<EQUALS>> \o built[name]>>
                  \o EmitEnvironment(Tail(decls), EraseEmitted(built, name))
             ELSE EmitEnvironment(Tail(decls), built)

\* a vector built from a map that starts as the received variables
ComposeEnvironment_FromReceived(decls, received) ==
    EmitEnvironment(decls, ResolveAll(decls, received, received))

\* the vector of environment strings the child is started with
ComposeEnvironment(decls, received) ==
    EmitEnvironment(decls, ResolveAll(decls, received, <<>>))

\* getenv(name) in a process started with the environment strings
RECURSIVE ChildValue(_, _)
ChildValue(strings, name) ==
    IF strings = <<>> THEN None
    ELSE IF IsPrefix(name \o <<EQUALS>>, Head(strings))
    THEN Drop(Head(strings), Len(name) + 1)
    ELSE ChildValue(Tail(strings), name)

\* the worker leaves Process::run: the send buffer is flushed by its
\* destructor and the socket closes
SrvLeave(state) ==
    /\ spc' = state
    /\ s2c' = s2c \o ssbuf
    /\ ssbuf' = <<>>
    /\ sClosed' = TRUE

\* sendSocket.write on the server; a failed socket write is a LOG_ERROR, and
\* the worker process can be killed inside Socket::write after part of the
\* bytes were sent
SrvWrite(type, string, flush, next) ==
    LET w == SendWrite(ssbuf, type, string, flush)
    IN  \/ /\ ssbuf' = w.data
           /\ s2c' = s2c \o w.sent
           /\ spc' = next
           /\ UNCHANGED sClosed
        \/ /\ w.sent # <<>>
           /\ cClosed
           /\ spc' = "error"
           /\ sClosed' = TRUE
           /\ UNCHANGED <<ssbuf, s2c>>
        \/ /\ \E k \in KillPoints(w.sent) : s2c' = s2c \o Take(w.sent, k)
           /\ spc' = "killed"
           /\ sClosed' = TRUE
           /\ UNCHANGED ssbuf

ServerHasBufferedData(consumed, end) == consumed # end

ServerHasData(consumed, end) ==
    ServerHasBufferedData(consumed, end) \/ end < Len(c2s) \/ cClosed

\* the end of the server's buffer once it holds the bytes a read asks for:
\* Socket::read is called when the buffer cannot satisfy the request
ServerFill(need) ==
    IF srvEnd - srvConsumed >= need THEN srvEnd
    ELSE Min(Len(c2s), srvEnd + INITIAL_MTU_SIZE)

\* receiveSocket.read returns false: in the prologue a LOG_ERROR, in the
\* relay loop the frame is taken as TERMINATE_COMMAND
SrvSocketClosed ==
    /\ spc \in {"prologue", "frame"}
    /\ Len(c2s) - srvConsumed < 5
    /\ cClosed
    /\ killSent' = (killSent \/ spc = "frame")
    /\ SrvLeave("error")
    /\ srvEnd' = Len(c2s)
    /\ UNCHANGED <<srvConsumed, sType, sNeed, prologueVars, stdInInput,
                   pipeOutput, processHasExited, stdInData, closeStdIn,
                   exitStatus>>
    /\ UNCHANGED <<configVars, c2s, cClosed, clientVars, rawFrames, childVars,
                   observedVars>>

\* readString finds the socket closed: LOG_ERROR
SrvStringClosed ==
    /\ spc \in {"prologueString", "string"}
    /\ Len(c2s) - srvConsumed < sNeed
    /\ cClosed
    /\ SrvLeave("error")
    /\ srvEnd' = Len(c2s)
    /\ UNCHANGED <<srvConsumed, sType, sNeed, prologueVars, relayVars>>
    /\ UNCHANGED <<configVars, c2s, cClosed, clientVars, rawFrames, childVars,
                   observedVars>>

\* the cases of the prologue's switch that read a string
IsPrologueType_WithStdin(type) ==
    type \in {WORKING_DIRECTORY, ENVIRONMENT_VARIABLE, COMMAND_ARGUMENT, START_COMMAND,
              STDIN_DATA}

IsPrologueType(type) ==
    type \in {WORKING_DIRECTORY, ENVIRONMENT_VARIABLE, COMMAND_ARGUMENT, START_COMMAND}

\* prologue: read a header; any type but the four prologue types is a
\* LOG_ERROR
SrvPrologueFrame ==
    /\ spc = "prologue"
    /\ ServerFill(5) - srvConsumed >= 5
    /\ LET type == c2s[srvConsumed + 1]
           payloadValue == Length(ReadU32(c2s, srvConsumed + 1))
       IN  /\ srvFrames' = Append(srvFrames, type)
           /\ srvConsumed' = srvConsumed + 5
           /\ srvEnd' = ServerFill(5)
           /\ IF IsPrologueType(type)
              THEN /\ spc' = "prologueString"
                   /\ sType' = type
                   /\ sNeed' = payloadValue
                   /\ UNCHANGED <<s2c, ssbuf, sClosed>>
              ELSE /\ SrvLeave("error")
                   /\ UNCHANGED <<sType, sNeed>>
    /\ UNCHANGED <<prologueVars, relayVars>>
    /\ UNCHANGED <<configVars, c2s, cClosed, clientVars, rawFrames, childVars,
                   stdinWritten, stdinAccepted, stdinCloseCause>>

\* prologue: the string of the frame, stored according to the frame's type
SrvPrologueString ==
    /\ spc = "prologueString"
    /\ ServerFill(sNeed) - srvConsumed >= sNeed
    /\ LET string == SubSeq(c2s, srvConsumed + 1, srvConsumed + sNeed)
       IN  /\ srvConsumed' = srvConsumed + sNeed
           /\ srvEnd' = ServerFill(sNeed)
           /\ processDirectory' =
                IF sType = WORKING_DIRECTORY
                THEN (IF BaseDirectory = <<>> THEN <<>> ELSE BaseDirectory \o <<SLASH>>)
                     \o string
                ELSE processDirectory
           /\ receivedEnvironmentVariables' =
                IF sType = ENVIRONMENT_VARIABLE
                THEN ReceiveEnvironmentVariable(receivedEnvironmentVariables, string)
                ELSE receivedEnvironmentVariables
           /\ arguments' = IF sType = COMMAND_ARGUMENT THEN Append(arguments, string)
                           ELSE arguments
           /\ commandName' = IF sType = START_COMMAND THEN string ELSE commandName
           /\ UNCHANGED environment
           /\ spc' = IF sType = START_COMMAND THEN "spawn" ELSE "prologue"
    /\ UNCHANGED <<ssbuf, sType, sNeed, relayVars>>
    /\ UNCHANGED <<configVars, c2s, s2c, cClosed, sClosed, clientVars, rawFrames,
                   childVars, observedVars>>

\* look the command up, build the environment and start the child with its
\* three pipes
SrvSpawn ==
    /\ spc = "spawn"
    /\ IF commandName \notin ServerCommands
       THEN /\ SrvLeave("error")
            /\ UNCHANGED <<stdInInput, pipeOutput, childVars, environment>>
       ELSE /\ spc' = "loop"
            /\ environment' = ComposeEnvironment(command.environment,
                                                  receivedEnvironmentVariables)
            /\ child' = "running"
            /\ childStdinOpen' = TRUE
            /\ childOutOpen' = [s \in Streams |-> TRUE]
            /\ stdInInput' = TRUE
            /\ pipeOutput' = [s \in Streams |-> TRUE]
            /\ UNCHANGED <<s2c, ssbuf, sClosed, childStatus, pipe, childWrote>>
    /\ UNCHANGED <<srvEnd, srvConsumed, sType, sNeed, processDirectory,
                   receivedEnvironmentVariables, arguments, commandName,
                   processHasExited, stdInData, closeStdIn, exitStatus, killSent>>
    /\ UNCHANGED <<configVars, c2s, cClosed, clientVars, rawFrames, observedVars>>

\* top of the relay loop: the loop condition, then waitpid(WNOHANG)
SrvLoop ==
    /\ spc = "loop"
    /\ IF ~(stdInInput \/ pipeOutput["out"] \/ pipeOutput["err"])
       THEN /\ spc' = "wait"
            /\ UNCHANGED <<stdInData, stdInInput, processHasExited, exitStatus,
                           stdinCloseCause>>
       ELSE /\ spc' = "stdout"
            /\ IF ~processHasExited /\ child \in {"exited", "signaled"}
               THEN /\ stdInData' = <<>>
                    /\ stdInInput' = FALSE
                    /\ processHasExited' = TRUE
                    /\ exitStatus' = [kind |-> child, status |-> childStatus]
                    /\ stdinCloseCause' = IF stdInInput THEN "exit" ELSE stdinCloseCause
               ELSE UNCHANGED <<stdInData, stdInInput, processHasExited, exitStatus,
                                stdinCloseCause>>
    /\ UNCHANGED <<ssbuf, srvEnd, srvConsumed, sType, sNeed, prologueVars, pipeOutput,
                   closeStdIn, killSent>>
    /\ UNCHANGED <<configVars, c2s, s2c, cClosed, sClosed, clientVars, rawFrames,
                   childVars, stdinWritten, stdinAccepted, srvFrames>>

\* the flush argument of the relay loop's sendSocket.write calls
RelayFlush_Deferred == FALSE

RelayFlush == TRUE

\* the number of bytes Pipe::read returns
PipeRead(available) == Min(available, DATA_BUFFER_SIZE)

\* the number of bytes of the read that are sent in the data frame
SentLength_OneLess(received) == IF received > 0 THEN received - 1 ELSE 0

SentLength(received) == received

\* a pipe that is reported readable after the worker closed its end
Readable_AfterClose(s) == pipe[s] # <<>> \/ ~childOutOpen[s]

\* poll() reports a pipe readable when it holds bytes or its writers are gone
Readable(s) == pipeOutput[s] /\ (pipe[s] # <<>> \/ ~childOutOpen[s])

\* a pass of the relay loop after waitpid: the stdout branch (s = "out"),
\* then the stderr branch (s = "err") followed by the test that enters the
\* socket branch.  A readable pipe is read, what was read is sent, and the
\* pipe is closed on a read of zero bytes
SrvOutput(s) ==
    LET type == IF s = "out" THEN STDOUT_DATA ELSE STDERR_DATA
        next == IF s = "out" THEN "stderr"
                ELSE IF ServerHasData(srvConsumed, srvEnd) THEN "frame" ELSE "drain"
    IN  /\ spc = (IF s = "out" THEN "stdout" ELSE "stderr")
        /\ IF Readable(s)
           THEN LET received == PipeRead(Len(pipe[s]))
                IN  /\ pipe' = [pipe EXCEPT ![s] = Drop(@, received)]
                    /\ SrvWrite(type, Take(pipe[s], SentLength(received)), RelayFlush, next)
                    /\ pipeOutput' = [pipeOutput EXCEPT ![s] = (received # 0)]
           ELSE /\ spc' = next
                /\ UNCHANGED <<pipe, pipeOutput, s2c, ssbuf, sClosed>>
        /\ UNCHANGED <<srvEnd, srvConsumed, sType, sNeed, prologueVars, stdInInput,
                       processHasExited, stdInData, closeStdIn, exitStatus, killSent>>
        /\ UNCHANGED <<configVars, c2s, cClosed, clientVars, rawFrames, child,
                       childStatus, childStdinOpen, childOutOpen, childWrote,
                       observedVars>>

\* stdInData += receiveSocket.readString(payloadValue)
AppendStdin(data, string) == data \o string

\* relay loop: read a header from the socket; STDIN_DATA is ignored when the
\* stdin pipe is closed, requests the close when empty, and is read into
\* stdInData otherwise; every other type and a closed socket end the session
SrvFrame ==
    /\ spc = "frame"
    /\ ServerFill(5) - srvConsumed >= 5
    /\ LET type == c2s[srvConsumed + 1]
           payloadValue == Length(ReadU32(c2s, srvConsumed + 1))
           next == IF ServerHasData(srvConsumed + 5, ServerFill(5)) THEN "frame" ELSE "drain"
       IN  /\ srvFrames' = Append(srvFrames, type)
           /\ srvConsumed' = srvConsumed + 5
           /\ srvEnd' = ServerFill(5)
           /\ IF type = STDIN_DATA
              THEN /\ IF ~stdInInput
                      THEN spc' = next /\ UNCHANGED <<closeStdIn, sNeed>>
                      ELSE IF payloadValue = 0
                      THEN spc' = next /\ closeStdIn' = TRUE /\ UNCHANGED sNeed
                      ELSE spc' = "string" /\ sNeed' = payloadValue /\ UNCHANGED closeStdIn
                   /\ UNCHANGED <<s2c, ssbuf, sClosed, killSent>>
              ELSE /\ killSent' = TRUE
                   /\ SrvLeave(IF type = TERMINATE_COMMAND THEN "terminated" ELSE "error")
                   /\ UNCHANGED <<closeStdIn, sNeed>>
    /\ UNCHANGED <<sType, prologueVars, stdInInput, pipeOutput, processHasExited,
                   stdInData, exitStatus>>
    /\ UNCHANGED <<configVars, c2s, cClosed, clientVars, rawFrames, childVars,
                   stdinWritten, stdinAccepted, stdinCloseCause>>

\* relay loop: the string of a STDIN_DATA frame
SrvString ==
    /\ spc = "string"
    /\ ServerFill(sNeed) - srvConsumed >= sNeed
    /\ LET string == SubSeq(c2s, srvConsumed + 1, srvConsumed + sNeed)
       IN  /\ stdInData' = AppendStdin(stdInData, string)
           /\ stdinAccepted' = stdinAccepted \o string
    /\ srvConsumed' = srvConsumed + sNeed
    /\ srvEnd' = ServerFill(sNeed)
    /\ spc' = IF ServerHasData(srvConsumed + sNeed, ServerFill(sNeed)) THEN "frame" ELSE "drain"
    /\ UNCHANGED <<ssbuf, sType, sNeed, prologueVars, stdInInput, pipeOutput,
                   processHasExited, closeStdIn, exitStatus, killSent>>
    /\ UNCHANGED <<configVars, c2s, s2c, cClosed, sClosed, clientVars, rawFrames,
                   childVars, stdinWritten, stdinCloseCause, srvFrames>>

\* stdInData.erase(0, wrote)
EraseWritten_OneLess(data, wrote) == IF wrote > 0 THEN Drop(data, wrote - 1) ELSE data

EraseWritten(data, wrote) == Drop(data, wrote)

\* the condition under which the requested close of stdin is performed
ShouldCloseStdIn_Eager(close, data) == close

ShouldCloseStdIn(close, data) == close /\ data = <<>>

\* a notice sent whenever the stdin pipe is found closed
NoticeDue_WheneverClosed(writing, valid) == ~valid

\* the test after the write of pending bytes: the pipe's input end is
\* invalid, inside "if (!stdInData.empty())"
NoticeDue(writing, valid) == writing /\ ~valid

\* end of a pass of the relay loop: the non-blocking write of stdInData to
\* the child's stdin, the notice to the client when the pipe is broken, and
\* the requested close
SrvDrain ==
    /\ spc = "drain"
    /\ \E wrote \in 0..Len(stdInData) :
         LET writing == stdInData # <<>>
             broken == writing /\ stdInInput /\ ~childStdinOpen
             accepted == IF writing /\ stdInInput /\ childStdinOpen THEN wrote ELSE 0
             valid == stdInInput /\ ~broken
             lost == NoticeDue(writing, valid)
             data == IF lost THEN <<>> ELSE EraseWritten(stdInData, accepted)
             close == ShouldCloseStdIn(closeStdIn, data)
         IN  /\ wrote = accepted
             /\ stdinWritten' = stdinWritten \o Take(stdInData, accepted)
             /\ stdInData' = data
             /\ closeStdIn' = (closeStdIn /\ ~close)
             /\ stdInInput' = (valid /\ ~close)
             /\ stdinCloseCause' = IF broken THEN "broken"
                                   ELSE IF valid /\ close THEN "request"
                                   ELSE stdinCloseCause
             /\ IF lost
                THEN SrvWrite(STDIN_DATA, <<>>, RelayFlush, "loop")
                ELSE spc' = "loop" /\ UNCHANGED <<s2c, ssbuf, sClosed>>
    /\ UNCHANGED <<srvEnd, srvConsumed, sType, sNeed, prologueVars, pipeOutput,
                   processHasExited, exitStatus, killSent>>
    /\ UNCHANGED <<configVars, c2s, cClosed, clientVars, rawFrames, childVars,
                   stdinAccepted, srvFrames>>

\* after the relay loop: wait for the child when its exit was not seen yet,
\* then write the exit code to the socket when the child exited normally
SrvExitCode ==
    /\ spc = "wait"
    /\ processHasExited \/ child \in {"exited", "signaled"}
    /\ LET status == IF processHasExited THEN exitStatus
                     ELSE [kind |-> child, status |-> childStatus]
       IN  /\ exitStatus' = status
           /\ IF status.kind = "exited"
              THEN \/ /\ spc' = "done"
                      /\ s2c' = s2c \o ExitCodeFrame(status.status) \o ssbuf
                      /\ ssbuf' = <<>>
                      /\ sClosed' = TRUE
                   \/ /\ cClosed
                      /\ SrvLeave("error")
              ELSE SrvLeave("done")
    /\ processHasExited' = TRUE
    /\ UNCHANGED <<srvEnd, srvConsumed, sType, sNeed, prologueVars, stdInInput,
                   pipeOutput, stdInData, closeStdIn, killSent>>
    /\ UNCHANGED <<configVars, c2s, cClosed, clientVars, rawFrames, childVars,
                   observedVars>>

(***************************************************************************)
(* The child process; it is followed while its supervisor runs             *)
(***************************************************************************)
ChildRuns == child = "running" /\ spc \notin ServerEnded

ChildWrite ==
    /\ ChildRuns
    /\ Len(childWrote["out"]) + Len(childWrote["err"]) < MaxChildOutput
    /\ \E s \in Streams :
         LET b == OutputByte(1 + Len(childWrote["out"]) + Len(childWrote["err"]))
         IN  /\ childOutOpen[s]
             /\ pipe' = [pipe EXCEPT ![s] = Append(@, b)]
             /\ childWrote' = [childWrote EXCEPT ![s] = Append(@, b)]
    /\ UNCHANGED <<child, childStatus, childStdinOpen, childOutOpen>>
    /\ UNCHANGED <<configVars, c2s, s2c, cClosed, sClosed, clientVars, rawFrames,
                   serverVars, observedVars>>

ChildCloseStdin ==
    /\ ChildRuns
    /\ childStdinOpen
    /\ childStdinOpen' = FALSE
    /\ UNCHANGED <<child, childStatus, childOutOpen, pipe, childWrote>>
    /\ UNCHANGED <<configVars, c2s, s2c, cClosed, sClosed, clientVars, rawFrames,
                   serverVars, observedVars>>

ChildExit ==
    /\ ChildRuns
    /\ \E status \in ExitStatuses : childStatus' = status
    /\ child' = "exited"
    /\ childStdinOpen' = FALSE
    /\ childOutOpen' = [s \in Streams |-> FALSE]
    /\ UNCHANGED <<pipe, childWrote>>
    /\ UNCHANGED <<configVars, c2s, s2c, cClosed, sClosed, clientVars, rawFrames,
                   serverVars, observedVars>>

ChildSignaled ==
    /\ ChildRuns
    /\ child' = "signaled"
    /\ childStdinOpen' = FALSE
    /\ childOutOpen' = [s \in Streams |-> FALSE]
    /\ UNCHANGED <<childStatus, pipe, childWrote>>
    /\ UNCHANGED <<configVars, c2s, s2c, cClosed, sClosed, clientVars, rawFrames,
                   serverVars, observedVars>>

ClientStep ==
    \/ ClientSendWorkingDirectory
    \/ ClientSendArgument
    \/ ClientSendEnvironmentVariable
    \/ ClientSendStartCommand
    \/ ClientPoll
    \/ ClientSocketClosed
    \/ ClientStringClosed
    \/ ClientFrame
    \/ ClientString
    \/ ClientKilled

RawStep ==
    \/ RawSend
    \/ RawClose

ServerStep ==
    \/ SrvSocketClosed
    \/ SrvStringClosed
    \/ SrvPrologueFrame
    \/ SrvPrologueString
    \/ SrvSpawn
    \/ SrvLoop
    \/ \E s \in Streams : SrvOutput(s)
    \/ SrvFrame
    \/ SrvString
    \/ SrvDrain
    \/ SrvExitCode

ChildStep ==
    \/ ChildWrite
    \/ ChildCloseStdin
    \/ ChildExit
    \/ ChildSignaled

\* a session between the k8psh client and the server
Init == InitWith("wd")

Next == ClientStep \/ ServerStep \/ ChildStep

Spec == Init /\ [][Next]_vars

\* the start of a session, up to the spawn of the child, for every command
\* declaration and client environment
InitEnv ==
    InitFrom("wd", {Command} \cup CommandsWithValues \cup CommandsWithRepeats,
             AllClientEnvironments)

NextEnv ==
    \/ ClientSendWorkingDirectory
    \/ ClientSendArgument
    \/ ClientSendEnvironmentVariable
    \/ ClientSendStartCommand
    \/ SrvStringClosed
    \/ SrvPrologueFrame
    \/ SrvPrologueString
    \/ SrvSpawn

SpecEnv == InitEnv /\ [][NextEnv]_vars

\* a session between a peer that writes arbitrary frames and the server
InitRaw == InitWith("none")

NextRaw == RawStep \/ ServerStep \/ ChildStep

SpecRaw == InitRaw /\ [][NextRaw]_vars

(***************************************************************************)
(* mainServer (POSIX branch): the accept loop, the forked connection       *)
(* workers and the shutdown.  A worker is followed by its outcome only:    *)
(* Process::run returns (the session ended with or without an exit code),  *)
(* or it throws (LOG_ERROR: protocol violation, closed socket, unknown     *)
(* command, failed spawn).                                                 *)
(***************************************************************************)
\* unsigned(-1) >> 1
INT_MAX == 2147483647

ClampPositive(value, max) ==
    IF value < 0 THEN 0 ELSE IF value > max THEN max ELSE value

\* the loop condition
LoopCondition_Inclusive(count, max) == count <= max \/ max < 0

LoopCondition(count, max) == count < max \/ max < 0

\* the count after accept: a socket that is not valid is not counted
CountAfterAccept(count, valid) == IF valid THEN count + 1 ELSE count

\* the condition under which the shutdown waits for the workers
WaitsForWorkers_Never(wait, count) == FALSE

WaitsForWorkers(wait, count) == wait /\ count # 0

Running == {w \in 1..Len(workers) : workers[w].state = "running"}

\* poll() reports the exit channel once every copy of the pipe's input end
\* is closed: the server's own (closed by handleSignal) and the copies the
\* running workers inherited
ExitReadable ==
    /\ ~exitInput
    /\ \A w \in Running : ~workers[w].holdsExitInput

\* the cleanup lambda, run by the named process
Cleanup(process) ==
    /\ createdExecutables' = (createdExecutables /\ keepClientExecutables)
    /\ pidFile' = (pidFile /\ ~daemonize)
    /\ deletedBy' = IF (createdExecutables /\ ~keepClientExecutables) \/ (pidFile /\ daemonize)
                    THEN process ELSE deletedBy

\* top of the loop: the condition, then remainingMs and the call of poll
MainLoop ==
    /\ mpc = "loop"
    /\ IF LoopCondition(connectionCount, maxConnections)
       THEN /\ mpc' = "poll"
            /\ remainingMs' = IF timeoutMs >= 0 THEN endTime - now ELSE 0
       ELSE /\ mpc' = "shutdown"
            /\ UNCHANGED remainingMs
    /\ UNCHANGED <<daemonize, keepClientExecutables, waitOnClientConnections,
                   maxConnections, timeoutMs, endTime, connectionCount, now,
                   exitInput, pending, connected, invalidAccepts, workers,
                   createdExecutables, pidFile, deletedBy>>
    /\ UNCHANGED sessionVars

\* poll returns: the exit channel is tested first, then the timeout, then
\* the listener; an accepted socket that is valid is handed to a forked
\* worker, and a failed fork is a LOG_ERROR
MainPoll ==
    /\ mpc = "poll"
    /\ LET waitMs == ClampPositive(remainingMs, INT_MAX)
           elapsed == now - (endTime - remainingMs)
       IN  IF ExitReadable
           THEN /\ mpc' = "shutdown"
                /\ UNCHANGED <<connectionCount, pending, invalidAccepts, workers,
                               createdExecutables, pidFile, deletedBy>>
           ELSE IF pending = 0
           THEN /\ timeoutMs >= 0
                /\ elapsed >= waitMs
                /\ mpc' = IF remainingMs <= waitMs THEN "shutdown" ELSE "loop"
                /\ UNCHANGED <<connectionCount, pending, invalidAccepts, workers,
                               createdExecutables, pidFile, deletedBy>>
           ELSE /\ pending' = pending - 1
                /\ \E valid \in BOOLEAN :
                     \/ /\ connectionCount' = CountAfterAccept(connectionCount, valid)
                        /\ workers' = IF valid
                                       THEN Append(workers, [state |-> "running",
                                                             holdsExitInput |-> exitInput,
                                                             remainingMs |-> remainingMs])
                                       ELSE workers
                        /\ invalidAccepts' = IF valid THEN invalidAccepts
                                              ELSE invalidAccepts + 1
                        /\ mpc' = "loop"
                        /\ UNCHANGED <<createdExecutables, pidFile, deletedBy>>
                     \/ /\ valid
                        /\ mpc' = "failed"
                        /\ Cleanup("server")
                        /\ UNCHANGED <<connectionCount, workers, invalidAccepts>>
    /\ UNCHANGED <<daemonize, keepClientExecutables, waitOnClientConnections,
                   maxConnections, timeoutMs, endTime, remainingMs, now, exitInput,
                   connected>>
    /\ UNCHANGED sessionVars

\* after the loop: wait for every child when waiting is enabled and a
\* connection was accepted, then cleanup and exit(0)
MainShutdown ==
    /\ mpc = "shutdown"
    /\ WaitsForWorkers(waitOnClientConnections, connectionCount) => Running = {}
    /\ mpc' = "exited"
    /\ Cleanup("server")
    /\ UNCHANGED <<daemonize, keepClientExecutables, waitOnClientConnections,
                   maxConnections, timeoutMs, endTime, connectionCount, remainingMs,
                   now, exitInput, pending, connected, invalidAccepts, workers>>
    /\ UNCHANGED sessionVars

\* handleSignal runs in the server process (INT, TERM, or HUP in the
\* foreground): exitRequested.closeInput()
MainSignal ==
    /\ mpc \in {"loop", "poll", "shutdown"}
    /\ exitInput
    /\ exitInput' = FALSE
    /\ UNCHANGED <<mpc, daemonize, keepClientExecutables, waitOnClientConnections,
                   maxConnections, timeoutMs, endTime, connectionCount, remainingMs,
                   now, pending, connected, invalidAccepts, workers,
                   createdExecutables, pidFile, deletedBy>>
    /\ UNCHANGED sessionVars

\* a client connects to the listener
ClientConnects ==
    /\ mpc \in {"loop", "poll"}
    /\ connected < MaxClients
    /\ connected' = connected + 1
    /\ pending' = pending + 1
    /\ UNCHANGED <<mpc, daemonize, keepClientExecutables, waitOnClientConnections,
                   maxConnections, timeoutMs, endTime, connectionCount, remainingMs,
                   now, exitInput, invalidAccepts, workers, createdExecutables,
                   pidFile, deletedBy>>
    /\ UNCHANGED sessionVars

\* the clock advances by a millisecond
Tick ==
    /\ mpc \in {"loop", "poll"}
    /\ now < MaxTime
    /\ now' = now + 1
    /\ UNCHANGED <<mpc, daemonize, keepClientExecutables, waitOnClientConnections,
                   maxConnections, timeoutMs, endTime, connectionCount, remainingMs,
                   exitInput, pending, connected, invalidAccepts, workers,
                   createdExecutables, pidFile, deletedBy>>
    /\ UNCHANGED sessionVars

\* Process::run returns in a worker: the worker returns 0 from mainServer
WorkerReturns ==
    /\ \E w \in Running : workers' = [workers EXCEPT ![w].state = "returned"]
    /\ UNCHANGED <<mpc, daemonize, keepClientExecutables, waitOnClientConnections,
                   maxConnections, timeoutMs, endTime, connectionCount, remainingMs,
                   now, exitInput, pending, connected, invalidAccepts,
                   createdExecutables, pidFile, deletedBy>>
    /\ UNCHANGED sessionVars

\* Process::run throws in a worker: the exception reaches the catch block
\* of mainServer in the worker process, which runs cleanup and rethrows
WorkerThrows ==
    /\ \E w \in Running : workers' = [workers EXCEPT ![w].state = "thrown"]
    /\ Cleanup("worker")
    /\ UNCHANGED <<mpc, daemonize, keepClientExecutables, waitOnClientConnections,
                   maxConnections, timeoutMs, endTime, connectionCount, remainingMs,
                   now, exitInput, pending, connected, invalidAccepts>>
    /\ UNCHANGED sessionVars

InitServer ==
    /\ InitMain(BOOLEAN, BOOLEAN, BOOLEAN, -1..MaxClients, -1..1)
    /\ InitSession("none", {Command}, ClientEnvironments)

NextServer ==
    \/ MainLoop
    \/ MainPoll
    \/ MainShutdown
    \/ MainSignal
    \/ ClientConnects
    \/ Tick
    \/ WorkerReturns
    \/ WorkerThrows

SpecServer == InitServer /\ [][NextServer]_vars

(***************************************************************************)
(* Configuration::load and its parsing functions (Configuration.cxx).      *)
(* The configuration text is a sequence of bytes; offsets are 0-based as   *)
(* in the code and the byte at the end of the text is 0.  A parsing        *)
(* function yields a record: ok is FALSE when it raises LOG_ERROR,         *)
(* otherwise offset is the returned offset and value the string (or list)  *)
(* it filled.                                                              *)
(***************************************************************************)
\* the characters of the configuration texts, by byte value from 32 and 97
Ascii32 == " !\"#$%&'()*+,-./0123456789:;<=>?@ABCDEFGHIJKLMNOPQRSTUVWXYZ[\\]^_"

Ascii97 == "abcdefghijklmnopqrstuvwxyz{|}~"

\* the byte value of a character
Ord(c) ==
    IF c = "\n" THEN 10
    ELSE IF c = "\t" THEN 9
    ELSE IF \E k \in 1..Len(Ascii32) : SubSeq(Ascii32, k, k) = c
    THEN 31 + CHOOSE k \in 1..Len(Ascii32) : SubSeq(Ascii32, k, k) = c
    ELSE 96 + CHOOSE k \in 1..Len(Ascii97) : SubSeq(Ascii97, k, k) = c

\* the bytes of a string literal
Bytes(s) == [k \in 1..Len(s) |-> Ord(SubSeq(s, k, k))]

QUOTE == 39
DQUOTE == 34
BACKSLASH == 92
HASH == 35
LBRACKET == 91
RBRACKET == 93
NEWLINE == 10
TAB == 9
SPACE == 32

\* Utilities::isWhitespace
IsWhitespace(c) == (c >= 9 /\ c <= 13) \/ c = SPACE

\* a function that raised LOG_ERROR at an offset
Failed(offset) == [ok |-> FALSE, offset |-> offset, value |-> <<>>]

\* a function that returned an offset and filled a value
Parsed(offset, value) == [ok |-> TRUE, offset |-> offset, value |-> value]

\* parseHexValue: the value the code computes for a hex character, -1 when
\* it raises LOG_ERROR
ParseHexValue(c) ==
    IF c >= 48 /\ c <= 57 THEN c - 48
    ELSE IF c >= 97 /\ c <= 102 THEN c - 97
    ELSE IF ~(c >= 65 /\ c <= 70) THEN -1
    ELSE c - 65

\* the byte of a one-character escape of a double-quoted span, -1 for an
\* unrecognized escape
EscapeValue(c) ==
    CASE c = DQUOTE -> DQUOTE
      [] c = BACKSLASH -> BACKSLASH
      [] c = QUOTE -> QUOTE
      [] c = 98 -> 8
      [] c = 116 -> 9
      [] c = 110 -> 10
      [] c = 102 -> 12
      [] c = 114 -> 13
      [] c = 48 -> 0
      [] OTHER -> -1

\* value.replace(substituteStart, value.length(),
\*               substituteEnvironmentVariables(value.substr(substituteStart)))
SubstituteTail(value, substituteStart) ==
    SubSeq(value, 1, substituteStart)
        \o SubstituteEnvironmentVariables(SubSeq(value, substituteStart + 1, Len(value)), <<>>)

\* the loop of a single-quoted span, from the offset after the opening quote
RECURSIVE SingleQuoted(_, _, _)
SingleQuoted(string, offset, value) ==
    LET c == CharAt(string, offset)
    IN  IF c # QUOTE
        THEN IF c = 0 THEN Failed(offset)
             ELSE SingleQuoted(string, offset + 1, Append(value, c))
        ELSE IF CharAt(string, offset + 1) = QUOTE
        THEN SingleQuoted(string, offset + 2, Append(value, QUOTE))
        ELSE Parsed(offset + 1, value)

\* the loop of a double-quoted span, from the offset after the opening quote
RECURSIVE DoubleQuoted(_, _, _)
DoubleQuoted(string, offset, value) ==
    LET c == CharAt(string, offset)
        e == CharAt(string, offset + 1)
    IN  IF c = DQUOTE
        THEN IF e = DQUOTE
             THEN DoubleQuoted(string, offset + 2, Append(value, DQUOTE))
             ELSE Parsed(offset + 1, value)
        ELSE IF c = 0 THEN Failed(offset)
        ELSE IF c # BACKSLASH
        THEN DoubleQuoted(string, offset + 1, Append(value, c))
        ELSE IF e = 120
        THEN LET high == ParseHexValue(CharAt(string, offset + 2))
                 low == ParseHexValue(CharAt(string, offset + 3))
             IN  IF high < 0 \/ low < 0 THEN Failed(offset)
                 ELSE DoubleQuoted(string, offset + 4,
                                   Append(value, (high * 16 + low) % 256))
        ELSE IF EscapeValue(e) < 0 THEN Failed(offset)
        ELSE DoubleQuoted(string, offset + 2, Append(value, EscapeValue(e)))

\* the outer loop of parseString
RECURSIVE ParseStringFrom(_, _, _, _, _)
ParseStringFrom(string, offset, value, substituteStart, terminator) ==
    LET c == CharAt(string, offset)
        \* the loop after a quoted span r; single: substituteStart moves to
        \* the end of the value
        AfterSpan(r, single) ==
            IF ~r.ok THEN r
            ELSE ParseStringFrom(string, r.offset, r.value,
                                 IF single THEN Len(r.value) ELSE substituteStart,
                                 terminator)
    IN  IF c = 0 \/ IsWhitespace(c) \/ c = HASH \/ c = terminator
        THEN Parsed(offset, SubstituteTail(value, substituteStart))
        ELSE IF c = QUOTE
        THEN AfterSpan(SingleQuoted(string, offset + 1,
                                    SubstituteTail(value, substituteStart)), TRUE)
        ELSE IF c = DQUOTE
        THEN AfterSpan(DoubleQuoted(string, offset + 1, value), FALSE)
        ELSE ParseStringFrom(string, offset + 1, Append(value, c),
                             substituteStart, terminator)

\* parseString(string, offset, value, terminator)
ParseString(string, offset, terminator) ==
    ParseStringFrom(string, offset, <<>>, 0, terminator)

\* skipComment
RECURSIVE SkipComment(_, _)
SkipComment(string, offset) ==
    IF CharAt(string, offset) \in {0, NEWLINE} THEN offset
    ELSE SkipComment(string, offset + 1)

\* skipWhitespace
RECURSIVE SkipWhitespace(_, _)
SkipWhitespace(string, offset) ==
    IF IsWhitespace(CharAt(string, offset))
    THEN SkipWhitespace(string, offset + 1)
    ELSE offset

\* skipNonNewlineWhitespace
RECURSIVE SkipNonNewlineWhitespace(_, _)
SkipNonNewlineWhitespace(string, offset) ==
    IF CharAt(string, offset) \in {TAB, SPACE}
    THEN SkipNonNewlineWhitespace(string, offset + 1)
    ELSE offset

\* the loop of ensureRestOfLineEmpty over the rest of the line
RECURSIVE RestOfLineEmpty(_, _)
RestOfLineEmpty(string, offset) ==
    LET c == CharAt(string, offset)
    IN  IF c \in {0, NEWLINE} THEN Parsed(offset, <<>>)
        ELSE IF ~IsWhitespace(c) THEN Failed(offset)
        ELSE RestOfLineEmpty(string, offset + 1)

\* ensureRestOfLineEmpty
EnsureRestOfLineEmpty(string, offset) ==
    LET start == SkipNonNewlineWhitespace(string, offset)
    IN  IF CharAt(string, start) = HASH
        THEN Parsed(SkipComment(string, start + 1), <<>>)
        ELSE RestOfLineEmpty(string, start)

\* the loop of getConfigurationValue that finds the equals sign: the offset
\* it stops at and whether it found one
RECURSIVE FindKeyEquals(_, _, _)
FindKeyEquals(string, offset, foundEquals) ==
    LET c == CharAt(string, offset)
    IN  IF c = TAB \/ c = SPACE \/ (~foundEquals /\ c = EQUALS)
        THEN FindKeyEquals(string, offset + 1, foundEquals \/ c = EQUALS)
        ELSE <<offset, foundEquals>>

\* getConfigurationValue: the value is the pair <<key, value>>
GetConfigurationValue(string, offset) ==
    LET WithValue(key, value) ==
            IF ~value.ok THEN value
            ELSE Parsed(value.offset, <<key.value, value.value>>)
        AfterKey(key, found) ==
            IF ~found[2] THEN Parsed(found[1], <<key.value, <<>>>>)
            ELSE WithValue(key, ParseString(string, found[1], 0))
        WithKey(key) ==
            IF ~key.ok THEN key
            ELSE AfterKey(key, FindKeyEquals(string, key.offset, FALSE))
    IN  WithKey(ParseString(string, offset, EQUALS))

\* parseHost
ParseHost(string, offset) ==
    LET Close(host, close) ==
            IF host.value = <<>> THEN Failed(close)
            ELSE IF CharAt(string, close) # RBRACKET THEN Failed(close)
            ELSE Parsed(SkipNonNewlineWhitespace(string, close + 1), host.value)
        WithHost(host) ==
            IF ~host.ok THEN host
            ELSE Close(host, SkipNonNewlineWhitespace(string, host.offset))
    IN  WithHost(ParseString(string, offset, RBRACKET))

\* parseArguments: the value is the list of the parsed strings
RECURSIVE ParseArguments(_, _, _)
ParseArguments(string, offset, values) ==
    LET c == CharAt(string, offset)
        WithValue(value) ==
            IF ~value.ok THEN value
            ELSE ParseArguments(string,
                     SkipNonNewlineWhitespace(string, value.offset),
                     Append(values, value.value))
    IN  IF c = 0 \/ IsWhitespace(c) \/ c = HASH THEN Parsed(offset, values)
        ELSE WithValue(ParseString(string, offset, 0))

\* Configuration::DEFAULT_STARTING_PORT
DEFAULT_STARTING_PORT == 1120

\* the number of values of an unsigned short
USHORT_RANGE == 65536

\* std::stoul of a string of digits, -1 when it throws on an empty string;
\* every value of 65536 or more is given as 65536
RECURSIVE StoulFrom(_, _, _)
StoulFrom(port, j, portValue) ==
    IF j > Len(port) THEN portValue
    ELSE StoulFrom(port, j + 1, Min(portValue * 10 + (port[j] - 48), USHORT_RANGE))

Stoul(port) == IF port = <<>> THEN -1 ELSE StoulFrom(port, 1, 0)

\* the port of a host string after the colon at offset colon: -1 when the
\* code raises an error, else static_cast<unsigned short>(portValue)
ParsePort(host, colon) ==
    LET port == SubSeq(host, colon + 2, Len(host))
    IN  IF \E j \in 1..Len(port) : port[j] < 48 \/ port[j] > 57 THEN -1
        ELSE IF Stoul(port) < 0 \/ Stoul(port) >= USHORT_RANGE THEN -1
        ELSE Stoul(port)

\* currentPort++ on an unsigned short
NextPort(currentPort) == (currentPort + 1) % USHORT_RANGE

\* the Host of a host section: its name, its port and its options
NewHost(host, colon, currentPort, options) ==
    [hostname |-> SubSeq(host, 1, colon), port |-> currentPort, options |-> options]

\* values[j].find("=", 1), Len(value) when there is none
FindEqualsFrom1(value) == FindChar(value, EQUALS, 1)

\* the condition under which values[j] is appended to the executable
IsExecutableToken_AnyOrder(executable, value) ==
    value = <<>> \/ FindEqualsFrom1(value) >= Len(value)

IsExecutableToken(executable, value) ==
    executable # <<>> \/ value = <<>> \/ FindEqualsFrom1(value) >= Len(value)

\* the loop over values[1..] that fills the entry
RECURSIVE FillCommand(_, _, _)
FillCommand(entry, values, j) ==
    IF j > Len(values) THEN entry
    ELSE IF IsExecutableToken(entry.executable, values[j])
    THEN FillCommand([entry EXCEPT !.executable = Append(@, values[j])], values, j + 1)
    ELSE LET equals == FindEqualsFrom1(values[j])
         IN  FillCommand(
                 [entry EXCEPT !.environmentVariables =
                     Append(@, [first |-> SubSeq(values[j], 1, equals),
                                second |-> SubSeq(values[j], equals + 2, Len(values[j]))])],
                 values, j + 1)

\* the executable of a entry after its tokens were consumed
DefaultExecutable_Empty(entry) == entry

DefaultExecutable(entry) ==
    IF entry.executable = <<>>
    THEN [entry EXCEPT !.executable = <<entry.name>>]
    ELSE entry

\* the Command of an entry line
NewCommand(currentHost, values) ==
    DefaultExecutable(
        FillCommand([host |-> currentHost, name |-> values[1], executable |-> <<>>,
                     environmentVariables |-> <<>>], values, 2))

\* map[key] = value on an unordered_map, which creates the key
Put(map, key, value) == [k \in DOMAIN map \cup {key} |-> IF k = key THEN value ELSE map[k]]

\* configuration._hostCommands[hostname][name] = entry
AddHostCommand_AllHosts(hostCommands, hostname, entry) ==
    [h \in DOMAIN hostCommands \cup {hostname} |->
        Put(IF h \in DOMAIN hostCommands THEN hostCommands[h] ELSE <<>>, entry.name, entry)]

AddHostCommand(hostCommands, hostname, entry) ==
    Put(hostCommands, hostname,
        Put(IF hostname \in DOMAIN hostCommands THEN hostCommands[hostname] ELSE <<>>,
            entry.name, entry))

\* the key of the client settings
BaseDirectoryKey == Bytes("baseDirectory")

\* the working path the configuration is loaded with
WorkingPath == Bytes("/w")

\* Utilities::isAbsolutePath (POSIX)
IsAbsolutePath(filename) == Len(filename) > 0 /\ filename[1] = SLASH

\* the entry of load() for a configuration text
LoadStart(texts) ==
    /\ configurationString \in texts
    /\ load = [pc |-> "client", i |-> 0, currentHost |-> NoHost, currentPort |-> 0]
    /\ configuration = [baseDirectory |-> WorkingPath, hostCommands |-> <<>>,
                        commands |-> <<>>]

\* LOG_ERROR or an exception of the standard library leaves load(): no
\* Configuration is returned
LoadFails == load' = [load EXCEPT !.pc = "failed"]

\* the byte the loop of load() looks at after skipWhitespace
LoadAt == SkipWhitespace(configurationString, load.i)

LoadChar == CharAt(configurationString, LoadAt)

\* client settings loop: a comment
LoadClientComment ==
    /\ load.pc = "client"
    /\ LoadChar = HASH
    /\ load' = [load EXCEPT !.i = SkipComment(configurationString, LoadAt + 1)]
    /\ UNCHANGED <<configurationString, configuration, runVars, mainVars, argumentVars, substitution,
                 unitVars>>

\* client settings loop: a key and its value. A relative baseDirectory is
\* joined to the working directory; the removal of "." and ".." segments by
\* getAbsolutePath is left out
LoadClientSetting ==
    /\ load.pc = "client"
    /\ LoadChar \notin {0, LBRACKET, HASH}
    /\ \E setting \in {GetConfigurationValue(configurationString, LoadAt)} :
       \E rest \in {EnsureRestOfLineEmpty(configurationString, setting.offset)} :
           IF ~setting.ok \/ ~rest.ok \/ setting.value[1] # BaseDirectoryKey
           THEN LoadFails /\ UNCHANGED configuration
           ELSE \E value \in {setting.value[2]} :
                /\ load' = [load EXCEPT !.i = rest.offset]
                /\ configuration' =
                       [configuration EXCEPT !.baseDirectory =
                           IF IsAbsolutePath(value) THEN value
                           ELSE WorkingPath \o <<SLASH>> \o value]
    /\ UNCHANGED <<configurationString, runVars, mainVars, argumentVars, substitution,
                 unitVars>>

\* the end of the client settings: the text ends or a host section starts
LoadServerSettings ==
    /\ load.pc = "client"
    /\ LoadChar \in {0, LBRACKET}
    /\ load' = [load EXCEPT !.pc = "server", !.i = LoadAt,
                            !.currentPort = DEFAULT_STARTING_PORT]
    /\ UNCHANGED <<configurationString, configuration, runVars, mainVars, argumentVars, substitution,
                 unitVars>>

\* server settings loop: a comment
LoadServerComment ==
    /\ load.pc = "server"
    /\ LoadChar = HASH
    /\ load' = [load EXCEPT !.i = SkipComment(configurationString, LoadAt + 1)]
    /\ UNCHANGED <<configurationString, configuration, runVars, mainVars, argumentVars, substitution,
                 unitVars>>

\* server settings loop: a host section
LoadHostSection ==
    /\ load.pc = "server"
    /\ LoadChar = LBRACKET
    /\ \E host \in {ParseHost(configurationString,
                          SkipNonNewlineWhitespace(configurationString, LoadAt + 1))} :
       \E options \in {ParseArguments(configurationString, host.offset, <<>>)} :
       \E rest \in {EnsureRestOfLineEmpty(configurationString, options.offset)} :
       \E colon \in {FindChar(host.value, COLON, 0)} :
       \E port \in {IF colon < Len(host.value) THEN ParsePort(host.value, colon)
                     ELSE load.currentPort} :
           IF ~host.ok \/ ~options.ok \/ ~rest.ok \/ port < 0
           THEN LoadFails
           ELSE load' = [load EXCEPT !.i = rest.offset,
                                     !.currentHost = NewHost(host.value, colon, port,
                                                             options.value),
                                     !.currentPort = NextPort(port)]
    /\ UNCHANGED <<configurationString, configuration, runVars, mainVars, argumentVars, substitution,
                 unitVars>>

\* server settings loop: a command entry
LoadCommand ==
    /\ load.pc = "server"
    /\ LoadChar \notin {0, HASH, LBRACKET}
    /\ \E values \in {ParseArguments(configurationString, LoadAt, <<>>)} :
       \E rest \in {EnsureRestOfLineEmpty(configurationString, values.offset)} :
           IF ~values.ok \/ ~rest.ok
           THEN LoadFails /\ UNCHANGED configuration
           ELSE \E entry \in {NewCommand(load.currentHost, values.value)} :
                    /\ load' = [load EXCEPT !.i = rest.offset]
                    /\ configuration' =
                           [configuration EXCEPT
                               !.hostCommands = AddHostCommand(@, load.currentHost.hostname,
                                                               entry),
                               !.commands = Put(@, entry.name, entry)]
    /\ UNCHANGED <<configurationString, runVars, mainVars, argumentVars, substitution,
                 unitVars>>

\* the end of the text: load() returns the configuration
LoadReturn ==
    /\ load.pc = "server"
    /\ LoadChar = 0
    /\ load' = [load EXCEPT !.pc = "loaded", !.i = LoadAt]
    /\ UNCHANGED <<configurationString, configuration, runVars, mainVars, argumentVars, substitution,
                 unitVars>>

(***************************************************************************)
(* The configuration texts load() is applied to.                           *)
(***************************************************************************)
\* lines of a configuration: host sections with and without a port, with
\* options, with the ports 0 and 65535, a repeated host name, two entries
\* of the command n and a comment
ConfigurationLines ==
    { Bytes("[a]\n"), Bytes("[b:7] -w\n"), Bytes("[a:0]\n"), Bytes("[c:65535]\n"),
      Bytes("n\n"), Bytes("n A=1 x\n"), Bytes("# c\n") }

\* the texts of at most n lines
RECURSIVE LineTexts(_)
LineTexts(n) ==
    IF n = 0 THEN {<<>>}
    ELSE LET shorter == LineTexts(n - 1)
         IN  shorter \cup {text \o line : text \in shorter, line \in ConfigurationLines}

\* an entry of the command n under the host h, with the given tokens
EntryText(tokens) == Bytes("[h]\nn ") \o tokens

\* entries whose tokens mix declarations and executable tokens
EntryTexts ==
    { EntryText(Bytes("A=1 =B=2 x C=3")), EntryText(Bytes("=A x")),
      EntryText(Bytes("\"\" A=1")), EntryText(Bytes("A==1 ?B= ''")),
      EntryText(Bytes("A=${Y} 'B'=${X:-d}")) }

\* entries with one token that holds ${Y} in a double-quoted span, followed
\* by nothing, by a single-quoted span and by unquoted bytes; and the same
\* reference in a single-quoted span and unquoted
QuotedTexts ==
    { EntryText(Bytes("\"${Y}\"")), EntryText(Bytes("\"${Y}\"'q'")),
      EntryText(Bytes("\"${Y}\"z")), EntryText(Bytes("'${Y}'")),
      EntryText(Bytes("${Y}")), EntryText(Bytes("\"$\"'{Y}'\"\"")) }

\* the hex digits
HexDigits == Bytes("0123456789abcdefABCDEF")

\* an entry with the token "\xHH"
HexText(high, low) == EntryText(Bytes("\"\\x") \o <<high, low>> \o Bytes("\""))

HexTexts ==
    {HexText(HexDigits[h], HexDigits[l]) : h, l \in DOMAIN HexDigits}
        \cup {HexText(Ord("g"), Ord("1")), HexText(Ord("1"), Ord("G"))}

\* texts with client settings
ClientTexts ==
    { Bytes("baseDirectory=/v\n[a]\nn"), Bytes("# c\nbaseDirectory = v # c\n"),
      Bytes("baseDirectory\n") }

\* texts that must not load
BadConfigurations ==
    { Bytes("k=v"), Bytes("n\n[a]\n"), Bytes("baseDirectory=a b"),
      Bytes("baseDirectory=\"a\tb\" c\n# d"), Bytes("baseDirectory=\"a"),
      Bytes("baseDirectory=\"a\\k\""), Bytes("baseDirectory='a"),
      Bytes("[a]\nn 'x"), Bytes("[a]\nn \"x\\q\""),
      Bytes("[\nh]"), Bytes("[ h:65536 ]"), Bytes("[ h:65_36 ]"), Bytes("[h:x]"),
      Bytes("[h\n]"), Bytes("[h -w\n]"), Bytes("[]"), Bytes("[ ]\nn"), Bytes("[\"\"]\nn"),
      Bytes("[:80]\nn") }

ConfigurationTexts ==
    LineTexts(MaxLines) \cup EntryTexts \cup QuotedTexts \cup HexTexts \cup ClientTexts
        \cup BadConfigurations

(***************************************************************************)
(* mainServer: the two passes over the arguments (Main.cxx 199-362).       *)
(* Arguments are strings; serverArgv holds argv[1..], so that argv[i] of   *)
(* the code is serverArgv[i], and deferredArgs[i] of the code is           *)
(* deferredArgs[i + 1].                                                    *)
(***************************************************************************)
\* parseOption: whether the argument is the option, whether the call raised
\* LOG_ERROR, the number of further arguments it took, and the name and
\* value of the option (the name is what the call defers)
ParseOption(argument, shortOption, option, isLast, next) ==
    IF argument = shortOption \/ argument = option
    THEN [matched |-> TRUE, failed |-> isLast, taken |-> 1, name |-> argument,
          value |-> next]
    ELSE IF Len(argument) > Len(option)
            /\ SubSeq(argument, 1, Len(option) + 1) = option \o "="
    THEN [matched |-> TRUE, failed |-> FALSE, taken |-> 0, name |-> option,
          value |-> SubSeq(argument, Len(option) + 2, Len(argument))]
    ELSE [matched |-> FALSE, failed |-> FALSE, taken |-> 0, name |-> "", value |-> ""]

\* the arguments without a value that the first pass defers
DeferredFlags ==
    {"-b", "--background", "-d", "--disable-client-executables",
     "-k", "--keep-client-executables", "-l", "--generate-local-executables",
     "-o", "--overwrite-client-executables", "-w", "--no-wait"}

\* the options with a value that the first pass defers, in the order of the
\* calls of parseOption
DeferredOptions ==
    << [short |-> "-e", long |-> "--executable-directory", local |-> "directory"],
       [short |-> "-m", long |-> "--max-connections", local |-> "connections"],
       [short |-> "-p", long |-> "--pidfile", local |-> "pidFilename"],
       [short |-> "-t", long |-> "--timeout", local |-> "timeout"] >>

\* the options with a value that the first pass stores at once
ImmediateOptions ==
    << [short |-> "-c", long |-> "--config", local |-> "config"],
       [short |-> "-n", long |-> "--name", local |-> "name"] >>

\* the first call of parseOption over a list of options that recognizes the
\* argument, with the option it belongs to; matched is FALSE when none does
RECURSIVE ParseOptions(_, _, _, _, _)
ParseOptions(options, k, argument, isLast, next) ==
    IF k > Len(options)
    THEN [matched |-> FALSE, failed |-> FALSE, taken |-> 0, name |-> "", value |-> "",
          local |-> ""]
    ELSE LET parsed == ParseOption(argument, options[k].short, options[k].long, isLast, next)
         IN  IF parsed.matched
             THEN [matched |-> TRUE, failed |-> parsed.failed, taken |-> parsed.taken,
                   name |-> parsed.name, value |-> parsed.value,
                   local |-> options[k].local]
             ELSE ParseOptions(options, k + 1, argument, isLast, next)

\* deferredArgs.insert(deferredArgs.begin(), options.begin(), options.end())
InsertOptions_AtEnd(deferredArgs, options) == deferredArgs \o options

InsertOptions(deferredArgs, options) == options \o deferredArgs

\* the variables of the accept loop, which the passes over the arguments
\* leave alone
loopVars == <<maxConnections, timeoutMs, endTime, connectionCount, remainingMs, now,
              exitInput, pending, connected, invalidAccepts, workers,
              createdExecutables, pidFile, deletedBy>>

\* the entry of mainServer with a command line, for a server whose host
\* section has the given options
InitArguments(commandLines, hosts) ==
    /\ serverArgv \in commandLines
    /\ serverHost \in hosts
    /\ mainLocals = MainLocals
    /\ mpc = "arguments"
    /\ daemonize = FALSE
    /\ keepClientExecutables = FALSE
    /\ waitOnClientConnections = TRUE
    /\ maxConnections = -1 /\ timeoutMs = -1 /\ endTime = 0
    /\ connectionCount = 0 /\ remainingMs = 0 /\ now = 0
    /\ exitInput = TRUE
    /\ pending = 0 /\ connected = 0 /\ invalidAccepts = 0
    /\ workers = <<>>
    /\ createdExecutables = FALSE /\ pidFile = FALSE /\ deletedBy = "none"

\* first pass: one iteration of the loop over argv
MainParseArgument ==
    /\ mpc = "arguments"
    /\ mainLocals.i <= Len(serverArgv)
    /\ LET i == mainLocals.i
           arg == serverArgv[i]
           isLast == i = Len(serverArgv)
           next == IF isLast THEN "" ELSE serverArgv[i + 1]
           deferred == ParseOptions(DeferredOptions, 1, arg, isLast, next)
           immediate == ParseOptions(ImmediateOptions, 1, arg, isLast, next)
       IN  IF arg \in DeferredFlags
           THEN /\ mainLocals' = [mainLocals EXCEPT !.i = i + 1,
                                                    !.deferredArgs = Append(@, arg)]
                /\ UNCHANGED mpc
           ELSE IF deferred.matched
           THEN IF deferred.failed
                THEN mpc' = "failed" /\ UNCHANGED mainLocals
                ELSE /\ mainLocals' =
                            [mainLocals EXCEPT
                                !.i = i + deferred.taken + 1,
                                !.deferredArgs = @ \o <<deferred.name, deferred.value>>]
                     /\ UNCHANGED mpc
           ELSE IF immediate.matched
           THEN IF immediate.failed
                THEN mpc' = "failed" /\ UNCHANGED mainLocals
                ELSE /\ mainLocals' =
                            [mainLocals EXCEPT
                                !.i = i + immediate.taken + 1,
                                ![immediate.local] = immediate.value]
                     /\ UNCHANGED mpc
           ELSE IF arg \in {"-h", "--help", "-v", "--version"}
           THEN mpc' = "exited" /\ UNCHANGED mainLocals
           ELSE IF arg \in {"-i", "--ignore-invalid-arguments"}
           THEN /\ mainLocals' = [mainLocals EXCEPT !.i = i + 1,
                                                    !.ignoreInvalidArguments = TRUE]
                /\ UNCHANGED mpc
           ELSE IF mainLocals.ignoreInvalidArguments
           THEN mainLocals' = [mainLocals EXCEPT !.i = i + 1] /\ UNCHANGED mpc
           ELSE mpc' = "failed" /\ UNCHANGED mainLocals
    /\ UNCHANGED <<daemonize, keepClientExecutables, waitOnClientConnections, loopVars>>
    /\ UNCHANGED <<serverArgv, serverHost, runVars, loadVars, substitution,
                 unitVars>>

\* after the first pass: the configuration is loaded, the options of the
\* server's host section are put before the deferred arguments and the
\* listener is opened, which can fail
MainProcessConfiguration ==
    /\ mpc = "arguments"
    /\ mainLocals.i > Len(serverArgv)
    /\ IF serverHost = NoHost
       THEN /\ keepClientExecutables' = TRUE
            /\ mainLocals' = [mainLocals EXCEPT !.i = 0,
                                                !.deferredArgc = Len(mainLocals.deferredArgs)]
            /\ mpc' = "deferred"
       ELSE \E listening \in BOOLEAN :
            /\ UNCHANGED keepClientExecutables
            /\ IF listening
               THEN /\ mainLocals' =
                           [mainLocals EXCEPT
                               !.i = 0,
                               !.deferredArgc =
                                   IF serverHost.options = <<>>
                                   THEN Len(mainLocals.deferredArgs)
                                   ELSE Len(serverHost.options),
                               !.deferredArgs = InsertOptions(@, serverHost.options)]
                    /\ mpc' = "deferred"
               ELSE mpc' = "failed" /\ UNCHANGED mainLocals
    /\ UNCHANGED <<daemonize, waitOnClientConnections, loopVars>>
    /\ UNCHANGED <<serverArgv, serverHost, runVars, loadVars, substitution,
                 unitVars>>

\* second pass: one iteration of the loop over the deferred arguments
MainParseDeferred ==
    /\ mpc = "deferred"
    /\ mainLocals.i < mainLocals.deferredArgc
    /\ LET i == mainLocals.i
           deferredArgc == mainLocals.deferredArgc
           arg == mainLocals.deferredArgs[i + 1]
           isLast == i + 1 = deferredArgc
           next == IF i + 2 <= Len(mainLocals.deferredArgs)
                   THEN mainLocals.deferredArgs[i + 2] ELSE ""
           option == ParseOptions(DeferredOptions, 1, arg, isLast, next)
           last == i + option.taken
           limit == IF last + 1 >= deferredArgc THEN Len(mainLocals.deferredArgs)
                    ELSE deferredArgc
           flag(short, long) == arg = short \/ arg = long
           advanced == [mainLocals EXCEPT !.i = last + 1, !.deferredArgc = limit]
       IN  IF flag("-b", "--background")
           THEN /\ daemonize' = TRUE
                /\ mainLocals' = advanced
                /\ UNCHANGED <<mpc, keepClientExecutables, waitOnClientConnections>>
           ELSE IF flag("-d", "--disable-client-executables")
           THEN /\ mainLocals' = [advanced EXCEPT !.disableClientExecutables = TRUE]
                /\ UNCHANGED <<mpc, daemonize, keepClientExecutables,
                               waitOnClientConnections>>
           ELSE IF option.matched /\ option.local = "directory"
           THEN /\ IF option.failed
                   THEN mpc' = "failed" /\ UNCHANGED mainLocals
                   ELSE /\ mainLocals' = [advanced EXCEPT !.directory = option.value \o "/"]
                        /\ UNCHANGED mpc
                /\ UNCHANGED <<daemonize, keepClientExecutables, waitOnClientConnections>>
           ELSE IF flag("-i", "--ignore-invalid-arguments")
           THEN /\ mainLocals' = [advanced EXCEPT !.ignoreInvalidArguments = TRUE]
                /\ UNCHANGED <<mpc, daemonize, keepClientExecutables,
                               waitOnClientConnections>>
           ELSE IF flag("-k", "--keep-client-executables")
           THEN /\ keepClientExecutables' = TRUE
                /\ mainLocals' = advanced
                /\ UNCHANGED <<mpc, daemonize, waitOnClientConnections>>
           ELSE IF flag("-l", "--generate-local-executables")
           THEN /\ mainLocals' = [advanced EXCEPT !.generateLocalExecutables = TRUE]
                /\ UNCHANGED <<mpc, daemonize, keepClientExecutables,
                               waitOnClientConnections>>
           ELSE IF option.matched
           THEN /\ IF option.failed
                   THEN mpc' = "failed" /\ UNCHANGED mainLocals
                   ELSE /\ mainLocals' = [advanced EXCEPT ![option.local] = option.value]
                        /\ UNCHANGED mpc
                /\ UNCHANGED <<daemonize, keepClientExecutables, waitOnClientConnections>>
           ELSE IF flag("-o", "--overwrite-client-executables")
           THEN /\ mainLocals' = [advanced EXCEPT !.overwriteClientExecutables = TRUE]
                /\ UNCHANGED <<mpc, daemonize, keepClientExecutables,
                               waitOnClientConnections>>
           ELSE IF flag("-w", "--no-wait")
           THEN /\ waitOnClientConnections' = FALSE
                /\ mainLocals' = advanced
                /\ UNCHANGED <<mpc, daemonize, keepClientExecutables>>
           ELSE IF mainLocals.ignoreInvalidArguments
           THEN /\ mainLocals' = advanced
                /\ UNCHANGED <<mpc, daemonize, keepClientExecutables,
                               waitOnClientConnections>>
           ELSE /\ mpc' = "failed"
                /\ UNCHANGED <<mainLocals, daemonize, keepClientExecutables,
                               waitOnClientConnections>>
    /\ UNCHANGED loopVars
    /\ UNCHANGED <<serverArgv, serverHost, runVars, loadVars, substitution,
                 unitVars>>

\* the second pass has consumed every deferred argument
MainArgumentsParsed ==
    /\ mpc = "deferred"
    /\ mainLocals.i >= mainLocals.deferredArgc
    /\ mpc' = "parsed"
    /\ UNCHANGED <<daemonize, keepClientExecutables, waitOnClientConnections, loopVars>>
    /\ UNCHANGED <<serverArgv, serverHost, mainLocals, runVars, loadVars, substitution,
                 unitVars>>

(***************************************************************************)
(* A call of Utilities::substituteEnvironmentVariables(in, overrides).     *)
(***************************************************************************)
\* the names referred to: X is not set in the process environment, Y is
SubstitutionNames == {<<88>>, <<89>>}

\* a string with a reference to a name without a default value
Reference(before, name, after) == before \o <<DOLLAR, LBRACE>> \o name \o <<RBRACE>> \o after

\* a string with a reference to a name with a default value
ReferenceWithDefault(before, name, default, after) ==
    before \o <<DOLLAR, LBRACE>> \o name \o <<COLON, MINUS>> \o default \o <<RBRACE>> \o after

\* the bytes around a reference and the default values
SubstitutionAffixes == {<<>>, <<97>>}

SubstitutionDefaults == {<<>>, <<100>>}

\* the override maps: each name is missing, not present, empty or "o"
SubstitutionOverrides ==
    UNION {[names -> {None, <<>>, <<111>>}] : names \in SUBSET SubstitutionNames}

SubstitutionInputs ==
    {Reference(b, n, a) : b \in SubstitutionAffixes, n \in SubstitutionNames,
                          a \in SubstitutionAffixes}
        \cup {ReferenceWithDefault(b, n[1], n[2], a) :
                  b \in SubstitutionAffixes,
                  n \in SubstitutionNames \X SubstitutionDefaults,
                  a \in SubstitutionAffixes}

\* the entry of the call
SubstitutionStart ==
    \E input \in SubstitutionInputs, overrides \in SubstitutionOverrides :
        substitution = [pc |-> "call", in |-> input, overrides |-> overrides,
                        result |-> <<>>]

\* the call returns its result
Substitute ==
    /\ substitution.pc = "call"
    /\ substitution' =
           [substitution EXCEPT
               !.pc = "returned",
               !.result = SubstituteEnvironmentVariables(substitution.in,
                                                         substitution.overrides)]
    /\ UNCHANGED <<runVars, mainVars, loadVars, argumentVars, unitVars>>

(***************************************************************************)
(* The specifications of the start of the programs.                        *)
(***************************************************************************)
\* the command lines of the server
ServerArguments ==
    {"-b", "-i", "-t", "5", "--timeout=6", "-m", "--pidfile=q", "-e", "x", "-h"}

RECURSIVE CommandLines(_)
CommandLines(n) ==
    IF n = 0 THEN {<<>>}
    ELSE LET shorter == CommandLines(n - 1)
         IN  shorter \cup {Append(line, arg) : line \in shorter, arg \in ServerArguments}

\* the host of the server's commands, with the options of its host section;
\* NoHost when the configuration has no command for the server
ServerHosts ==
    {NoHost} \cup
    { [hostname |-> <<97>>, port |-> DEFAULT_STARTING_PORT, options |-> options] :
        options \in { <<>>, <<"-t", "7">>, <<"--max-connections=1", "-e", "c">>,
                      <<"-p", "r", "-w">>, <<"-k", "--timeout=8", "-t">>,
                      <<"-d", "-l", "-o", "y">> } }

\* a load of each configuration text
InitConfig ==
    /\ InitMain({FALSE}, {FALSE}, {TRUE}, {-1}, {-1})
    /\ InitRun("none", {Command}, ClientEnvironments)
    /\ LoadStart(ConfigurationTexts)
    /\ ArgumentsIdle
    /\ SubstitutionIdle
    /\ UnitsIdle

NextConfig ==
    \/ LoadClientComment
    \/ LoadClientSetting
    \/ LoadServerSettings
    \/ LoadServerComment
    \/ LoadHostSection
    \/ LoadCommand
    \/ LoadReturn

SpecConfig == InitConfig /\ [][NextConfig]_vars

\* a start of the server with each command line and host section
InitArgs ==
    /\ InitArguments(CommandLines(MaxServerArgs), ServerHosts)
    /\ InitRun("none", {Command}, ClientEnvironments)
    /\ LoadIdle
    /\ SubstitutionIdle
    /\ UnitsIdle

NextArgs ==
    \/ MainParseArgument
    \/ MainProcessConfiguration
    \/ MainParseDeferred
    \/ MainArgumentsParsed

SpecArgs == InitArgs /\ [][NextArgs]_vars

\* a substitution of each input under each override map
InitSubstitution ==
    /\ InitMain({FALSE}, {FALSE}, {TRUE}, {-1}, {-1})
    /\ InitRun("none", {Command}, ClientEnvironments)
    /\ LoadIdle
    /\ ArgumentsIdle
    /\ SubstitutionStart
    /\ UnitsIdle

NextSubstitution == Substitute

SpecSubstitution == InitSubstitution /\ [][NextSubstitution]_vars

(***************************************************************************)
(* Properties                                                              *)
(***************************************************************************)
\* the complete frames each side has written to the socket
ServerSent == ParseFrames(s2c, TRUE)

ClientSent == ParseFrames(c2s, FALSE)

\* the complete frames each side has taken from its receive buffer
ServerReceived == ParseFrames(Take(c2s, srvConsumed), FALSE)

ClientReceived == ParseFrames(Take(s2c, cliConsumed), TRUE)

\* C1: when the worker has left Process::run after the child was spawned and
\* exited normally, and the client still holds the connection open, the
\* server has sent exactly one EXIT_CODE frame and it carries the child's
\* exit status, whatever the order of the client's STDIN_DATA frames and the
\* child's exit.
C1_ExitCodeSentOnNormalExit ==
    (spc \in {"done", "error", "terminated"} /\ child = "exited" /\ ~cClosed)
        => LET sent == ServerSent
           IN  /\ CountType(sent, EXIT_CODE) = 1
               /\ \A i \in 1..Len(sent) :
                    sent[i].type = EXIT_CODE => ToInt(sent[i].value) = childStatus

\* the bytes the server wrote hold at most one EXIT_CODE frame, and it ends
\* them
ExitCodeIsLast(bytes) ==
    LET sent == ParseFrames(bytes, TRUE)
    IN  /\ CountType(sent, EXIT_CODE) <= 1
        /\ \A i \in 1..Len(sent) :
             sent[i].type = EXIT_CODE
                 => /\ i = Len(sent)
                    /\ Len(bytes) \in FrameBoundaries(bytes, TRUE, 0)

\* C2: the server writes at most one EXIT_CODE frame, and no byte follows it
\* on the socket: after every step that writes to the socket, the bytes
\* written so far hold at most one EXIT_CODE frame and end with it.
C2_ExitCodeIsLast == [][s2c' # s2c => ExitCodeIsLast(s2c')]_vars

\* C2 witness: a finished session whose EXIT_CODE frame follows relayed
\* output
C2_Witness ==
    LET sent == ServerSent
    IN  /\ spc = "done"
        /\ Len(sent) >= 3
        /\ sent[Len(sent)].type = EXIT_CODE
        /\ \E i \in 1..Len(sent) : sent[i].string # <<>>

\* the frame types that belong before START_COMMAND
PrologueTypes ==
    {WORKING_DIRECTORY, ENVIRONMENT_VARIABLE, COMMAND_ARGUMENT, START_COMMAND}

\* the frames the server read before the first START_COMMAND
BeforeStart(i) == \A j \in 1..(i - 1) : srvFrames[j] # START_COMMAND

\* C3: a frame of type STDIN_DATA, STDOUT_DATA, STDERR_DATA,
\* TERMINATE_COMMAND, EXIT_CODE or of an unknown type read before
\* START_COMMAND ends the session with an error before any child is spawned;
\* a WORKING_DIRECTORY, ENVIRONMENT_VARIABLE, COMMAND_ARGUMENT or
\* START_COMMAND frame read after START_COMMAND terminates the child and
\* ends the session with an error, and no EXIT_CODE is sent.
C3_FramesOutOfPlace ==
    \A i \in 1..Len(srvFrames) :
        /\ (BeforeStart(i) /\ srvFrames[i] \notin PrologueTypes)
               => /\ i = Len(srvFrames)
                  /\ spc = "error"
                  /\ child = "none"
                  /\ s2c = <<>>
        /\ (~BeforeStart(i) /\ srvFrames[i] \in PrologueTypes)
               => /\ i = Len(srvFrames)
                  /\ spc = "error"
                  /\ child # "none"
                  /\ killSent
                  /\ CountType(ServerSent, EXIT_CODE) = 0

\* C3 witness: a prologue frame read while the child runs ended the session
C3_Witness ==
    /\ spc = "error"
    /\ killSent
    /\ child = "running"
    /\ Len(srvFrames) >= 2
    /\ ~BeforeStart(Len(srvFrames))
    /\ srvFrames[Len(srvFrames)] \in PrologueTypes

\* the index of the START_COMMAND frame the client sent, or one past the
\* frames when it has not been sent yet
StartIndex(frames) ==
    IF \E i \in 1..Len(frames) : frames[i].type = START_COMMAND
    THEN CHOOSE i \in 1..Len(frames) :
            /\ frames[i].type = START_COMMAND
            /\ \A j \in 1..(i - 1) : frames[j].type # START_COMMAND
    ELSE Len(frames) + 1

\* the frames of the client's bytes are in the order of the protocol
ClientFrameOrder(bytes, args) ==
    LET frames == ParseFrames(bytes, FALSE)
        start == StartIndex(frames)
    IN  /\ \A i \in 1..Len(frames) :
             /\ i = 1 => /\ frames[i].type = WORKING_DIRECTORY
                         /\ frames[i].string = ClientWorkingDirectory
             /\ (1 < i /\ i <= 1 + Len(args))
                    => frames[i].type = COMMAND_ARGUMENT /\ frames[i].string = args[i - 1]
             /\ (1 + Len(args) < i /\ i < start) => frames[i].type = ENVIRONMENT_VARIABLE
             /\ i = start => /\ i > 1 + Len(args)
                             /\ frames[i].string = Command.name
             /\ i > start => frames[i].type = STDIN_DATA
             /\ (frames[i].type = STDIN_DATA /\ frames[i].string = <<>>)
                    => /\ i = Len(frames)
                       /\ Len(bytes) \in FrameBoundaries(bytes, FALSE, 0)
        /\ Cardinality({i \in 1..Len(frames) :
                           frames[i].type = STDIN_DATA /\ frames[i].string = <<>>}) <= 1

\* C4: the frames the client sends are one WORKING_DIRECTORY frame, one
\* COMMAND_ARGUMENT frame per tail argument in order, ENVIRONMENT_VARIABLE
\* frames, exactly one START_COMMAND frame carrying the command name, and
\* after it only STDIN_DATA frames, of which at most one is of length zero
\* and that one is the last thing the client writes: the bytes written so
\* far have this form after every step that writes to the socket.
C4_ClientFrameOrder == [][c2s' # c2s => ClientFrameOrder(c2s', argv')]_vars

\* C4 witness: the client has sent its prologue, stdin data and the
\* zero-length STDIN_DATA frame
C4_Witness ==
    LET frames == ClientSent
    IN  /\ Len(argv) > 0
        /\ Len(frames) >= StartIndex(frames) + 2
        /\ frames[Len(frames)].type = STDIN_DATA
        /\ frames[Len(frames)].string = <<>>
        /\ frames[Len(frames) - 1].string # <<>>

\* C5: whenever the server is about to read a frame header in the relay loop
\* it is at a frame boundary of the client's byte stream, also after a
\* STDIN_DATA frame with a payload arrived while the child's stdin endpoint
\* was closed: the frame is consumed and dropped together with its payload.
C5_IgnoredFrameConsumed ==
    spc \in {"loop", "stdout", "stderr", "frame", "drain", "wait"}
        => srvConsumed \in FrameBoundaries(c2s, FALSE, 0)

\* C6: the client returns only after it has read an EXIT_CODE frame; when the
\* socket reaches end of file before one was read it does not return.
C6_ReturnOnlyAfterExitCode ==
    cpc = "returned"
        => LET received == ClientReceived
           IN  /\ received # <<>>
               /\ received[Len(received)].type = EXIT_CODE
               /\ cExit = ToInt(received[Len(received)].value)

\* C6 witness: the server closed the socket without an EXIT_CODE and the
\* client aborted
C6_Witness ==
    /\ cpc = "aborted"
    /\ sClosed
    /\ cliEnd = Len(s2c)
    /\ child # "none"
    /\ CountType(ServerSent, EXIT_CODE) = 0

StdinIsPrefix(written, bytes) ==
    IsPrefix(written, Concat(SelectStrings(ParseFrames(bytes, FALSE), STDIN_DATA)))

\* C8: the bytes written to the child's stdin are a prefix of the
\* concatenation of the payloads of the STDIN_DATA frames received from the
\* client, also when the non-blocking write accepts only part of the
\* pending bytes: this holds after every step that writes to the pipe or
\* takes bytes from the receive buffer.
C8_StdinIsPrefix ==
    [][<<stdinWritten, srvConsumed>>' # <<stdinWritten, srvConsumed>>
           => StdinIsPrefix(stdinWritten', Take(c2s', srvConsumed'))]_vars

\* C8 witness: a write accepted part of the pending bytes
C8_Witness ==
    /\ stdinWritten # <<>>
    /\ stdInData # <<>>
    /\ stdInInput

\* C9: the close of stdin requested by a zero-length STDIN_DATA frame is
\* performed only when no received byte is pending; while the child runs
\* and the pipe is not broken, the bytes written and the bytes pending are
\* the bytes received.
C9_CloseAfterDrain ==
    /\ stdinCloseCause = "request"
           => stdInData = <<>> /\ stdinWritten = stdinAccepted
    /\ stdInInput => stdinWritten \o stdInData = stdinAccepted

\* C9 witness: the requested close was performed after the received bytes
\* were written
C9_Witness ==
    /\ stdinCloseCause = "request"
    /\ ~stdInInput
    /\ Len(stdinWritten) >= 2

\* C10: the exit code the client returns is the exit status of the child,
\* carried by the 4-byte little-endian value of the EXIT_CODE frame.
C10_ExitCodeRoundTrip ==
    cpc = "returned"
        => /\ child = "exited"
           /\ cExit = childStatus
           /\ SubSeq(s2c, cliConsumed - 4, cliConsumed)
                  = <<EXIT_CODE, childStatus % 256, (childStatus \div 256) % 256, 0, 0>>

\* C10 witness: the client returned a non-zero exit status
C10_Witness ==
    /\ cpc = "returned"
    /\ childStatus = 42
    /\ cExit = 42

\* C11: when the worker has ended the session while the child it spawned was
\* still running, and the client had closed the socket or the worker had
\* read a TERMINATE_COMMAND, the worker has sent the termination signal to
\* the child and has sent no EXIT_CODE frame.
C11_TerminatedOnClose ==
    (/\ spc \in {"error", "terminated"}
     /\ child = "running"
     /\ (cClosed \/ \E i \in 1..Len(srvFrames) : srvFrames[i] = TERMINATE_COMMAND))
        => /\ killSent
           /\ LET sent == ServerSent IN CountType(sent, EXIT_CODE) = 0

\* C12: while the name of the received START_COMMAND is not a command of
\* the server's own host (a name declared for another host included), no
\* child exists, and once the lookup was made the session has ended with an
\* error.
C12_NoSpawnForOtherHost ==
    commandName \notin HostCommands[ServerName]
        => /\ child = "none"
           /\ spc \in {"prologue", "prologueString", "spawn", "error"}

C12_Witness ==
    /\ commandName = OtherCommandName
    /\ spc = "error"
    /\ srvFrames[Len(srvFrames)] = START_COMMAND

\* the declarations of the command that are the only one for their name
DeclaredOnce(decls) ==
    {i \in 1..Len(decls) :
        \A j \in 1..Len(decls) :
            DeclarationName(decls[j].first) = DeclarationName(decls[i].first) => j = i}

\* the strings of the ENVIRONMENT_VARIABLE frames for a name
FramesFor(frames, name) ==
    {frames[i].string : i \in {j \in 1..Len(frames) :
        /\ frames[j].type = ENVIRONMENT_VARIABLE
        /\ (frames[j].string = name \/ IsPrefix(name \o <<EQUALS>>, frames[j].string))}}

\* the child's values of the names declared before the i-th declaration
ValuesBefore(decls, i, strings) ==
    [n \in {DeclarationName(decls[j].first) : j \in 1..(i - 1)} |-> ChildValue(strings, n)]

FrameValues == {<<>>, <<118>>, <<118, EQUALS, 119>>}

BareEmpty(decls) ==
    {i \in DeclaredOnce(decls) :
        decls[i].first[1] \notin {EQUALS, QUESTION} /\ decls[i].second = <<>>}

\* C15 as stated: for a bare declaration "X=" the child sees the client's
\* value of X when X is set in the client's environment, and X is unset in
\* the child's environment when it is unset in the client's.
C15_UnsetWhenClientUnset ==
    child # "none" =>
        \A i \in BareEmpty(command.environment) :
            LET name == command.environment[i].first
            IN  ChildValue(environment, name) = clientEnv[name]

\* C15 (amended): for a bare declaration "X=" the child sees the client's
\* value of X when X is set in the client's environment, and X set to the
\* empty string when X is unset in the client's environment.
C15_EmptyWhenClientUnset ==
    child # "none" =>
        \A i \in BareEmpty(command.environment) :
            LET name == command.environment[i].first
            IN  ChildValue(environment, name) =
                    IF clientEnv[name] # None THEN clientEnv[name] ELSE <<>>

C15_Witness ==
    /\ child = "running"
    /\ \E i \in BareEmpty(command.environment) :
         LET name == command.environment[i].first
         IN  /\ clientEnv[name] = None
             /\ ChildValue(environment, name) = <<>>

\* C16: with a non-negative --max-connections N the count of accepted
\* connections never exceeds N, the loop does not wait for a connection once
\* the count equals N (with N = 0 it never does), and the count is the
\* number of valid sockets handed to workers: accepts that yield no valid
\* socket are not counted.
C16_ConnectionLimit ==
    /\ maxConnections >= 0 =>
         /\ connectionCount <= maxConnections
         /\ mpc = "poll" => connectionCount < maxConnections
    /\ connectionCount = Len(workers)
    /\ connectionCount + invalidAccepts + pending <= connected

C16_Witness ==
    /\ maxConnections = 1
    /\ connectionCount = 1
    /\ invalidAccepts = 1
    /\ mpc = "shutdown"

\* C17: with a non-negative --timeout, no connection is accepted in an
\* iteration of the loop that began when the deadline had passed
\* (remainingMs <= 0).
C17_NoAcceptAfterDeadline ==
    timeoutMs >= 0 => \A w \in 1..Len(workers) : workers[w].remainingMs > 0

\* C18: once a signal has closed the exit channel's input end, the next
\* return of poll leaves the loop without accepting a connection, and the
\* delivery of the signal changes no worker.
C18_SignalStopsAccepting ==
    [][/\ (~exitInput /\ mpc = "poll" /\ mpc' # "poll")
            => (mpc' = "shutdown" /\ connectionCount' = connectionCount
                /\ workers' = workers)
       /\ (exitInput /\ ~exitInput') => workers' = workers]_vars

\* C19: when the server has run cleanup on the clean shutdown path with
\* waiting enabled, every worker it started has terminated.
C19_CleanupAfterWorkers ==
    (mpc = "exited" /\ waitOnClientConnections)
        => \A w \in 1..Len(workers) : workers[w].state # "running"

C19_Witness ==
    /\ mpc = "exited"
    /\ waitOnClientConnections
    /\ Len(workers) = 2
    /\ deletedBy = "server"
    /\ ~createdExecutables

\* C20: while the accept loop is running, the client executables the server
\* created exist, and so does the PID file of a daemon.
C20_FilesKeptWhileLoopRuns ==
    mpc \in {"loop", "poll"} => (createdExecutables /\ (daemonize => pidFile))

(***************************************************************************)
(* Properties of the server's arguments                                    *)
(***************************************************************************)
\* no value was given
NoValue == "(none)"

\* the short and long names of the options that take a value
ValueOptionNames ==
    {DeferredOptions[k].short : k \in DOMAIN DeferredOptions}
        \cup {DeferredOptions[k].long : k \in DOMAIN DeferredOptions}
        \cup {ImmediateOptions[k].short : k \in DOMAIN ImmediateOptions}
        \cup {ImmediateOptions[k].long : k \in DOMAIN ImmediateOptions}

\* the value a list of arguments gives last for an option, in the form
\* "-o value", "--option value" or "--option=value"; an argument after the
\* name of an option with a value is that option's value
RECURSIVE GivenValue(_, _, _, _)
GivenValue(args, k, option, given) ==
    IF k > Len(args) THEN given
    ELSE IF args[k] \in ValueOptionNames
    THEN GivenValue(args, k + 2, option,
                    IF args[k] \in {option.short, option.long} /\ k < Len(args)
                    THEN args[k + 1] ELSE given)
    ELSE IF Len(args[k]) > Len(option.long)
            /\ SubSeq(args[k], 1, Len(option.long) + 1) = option.long \o "="
    THEN GivenValue(args, k + 1, option,
                    SubSeq(args[k], Len(option.long) + 2, Len(args[k])))
    ELSE GivenValue(args, k + 1, option, given)

\* the value in effect of an option after the two passes
ValueInEffect(option) == mainLocals[option.local]

\* the value in effect when the arguments give the value
Effective(option, value) == IF option.local = "directory" THEN value \o "/" ELSE value

\* C21: when the command line gives an option with a value
\* (--executable-directory, --max-connections, --pidfile, --timeout), the
\* value in effect after both passes is the last one of the command line,
\* whatever the host section of the configuration gives
C21_CommandLinePrecedence ==
    mpc = "parsed" =>
        \A k \in DOMAIN DeferredOptions :
            LET given == GivenValue(serverArgv, 1, DeferredOptions[k], NoValue)
            IN  given # NoValue =>
                    ValueInEffect(DeferredOptions[k]) = Effective(DeferredOptions[k], given)

\* both the host section and the command line give an option, with
\* different values, and both passes are done
C21_Witness ==
    /\ mpc = "parsed"
    /\ \E k \in DOMAIN DeferredOptions :
        LET given == GivenValue(serverArgv, 1, DeferredOptions[k], NoValue)
            hosted == GivenValue(serverHost.options, 1, DeferredOptions[k], NoValue)
        IN  given # NoValue /\ hosted # NoValue /\ given # hosted

(***************************************************************************)
(* Properties of Configuration::load                                       *)
(***************************************************************************)
\* the step of load() over a host header that raises no error
HostStep == load.pc = "server" /\ LoadChar = LBRACKET /\ load'.pc = "server"

\* the host string of the header load() looks at
HeaderHost ==
    ParseHost(configurationString,
              SkipNonNewlineWhitespace(configurationString, LoadAt + 1)).value

\* the number a string of digits denotes
RECURSIVE Decimal(_)
Decimal(digits) ==
    IF digits = <<>> THEN 0
    ELSE Decimal(SubSeq(digits, 1, Len(digits) - 1)) * 10 + (digits[Len(digits)] - 48)

\* the port the header gives after its first colon, -1 when it has no colon
HeaderPort ==
    LET colon == FindChar(HeaderHost, COLON, 0)
    IN  IF colon >= Len(HeaderHost) THEN -1
        ELSE Decimal(SubSeq(HeaderHost, colon + 2, Len(HeaderHost)))

\* C22: the port counter starts at 1120; a host header without a port gets
\* the counter's value, a header with a port gets that port, and in both
\* cases the counter becomes the assigned port plus one, for a repeated
\* host name too
C22_PortCounter ==
    [][/\ (load.pc = "client" /\ load'.pc = "server")
              => load'.currentPort = DEFAULT_STARTING_PORT
       /\ HostStep =>
              /\ load'.currentHost.port =
                     (IF HeaderPort < 0 THEN load.currentPort ELSE HeaderPort)
              /\ load'.currentPort = load'.currentHost.port + 1]_vars

\* the hosts of the commands of the configuration
CommandHosts ==
    {configuration.commands[n].host : n \in DOMAIN configuration.commands}
        \cup UNION {{configuration.hostCommands[h][n].host :
                         n \in DOMAIN configuration.hostCommands[h]} :
                    h \in DOMAIN configuration.hostCommands}

\* C23: after a successful load the port of every host is between 1 and
\* 65535, for a host declared with :0 and for a host without a port after
\* a host declared with :65535 too
C23_PortRange ==
    load.pc = "loaded" => \A host \in CommandHosts : host.port >= 1 /\ host.port <= 65535

\* the step of load() over a command entry that raises no error
EntryStep == load.pc = "server" /\ LoadChar \notin {0, HASH, LBRACKET} /\ load'.pc = "server"

\* the tokens of the entry load() looks at
EntryTokens == ParseArguments(configurationString, LoadAt, <<>>).value

\* a non-empty token with "=" at an index greater than 0
IsDeclarationToken(token) == token # <<>> /\ \E k \in 2..Len(token) : token[k] = EQUALS

\* every command of the global map and of the per-host maps of a
\* configuration
AllCommands(config) ==
    {config.commands[n] : n \in DOMAIN config.commands}
        \cup UNION {{config.hostCommands[h][n] : n \in DOMAIN config.hostCommands[h]} :
                    h \in DOMAIN config.hostCommands}

\* C24: every command of the global map and of every per-host map has a
\* non-empty executable list, and an entry without an executable token
\* gives a command whose executable is the list of its name alone
C24_ExecutableNeverEmpty ==
    [][/\ \A entry \in AllCommands(configuration') : entry.executable # <<>>
       /\ EntryStep =>
              LET tokens == EntryTokens
                  name == tokens[1]
              IN  (\A j \in 2..Len(tokens) : IsDeclarationToken(tokens[j]))
                      => /\ configuration'.commands[name].executable = <<name>>
                         /\ configuration'.hostCommands[load.currentHost.hostname][name]
                                .executable = <<name>>]_vars

\* a load has returned a command declared with environment declarations
\* and no executable token
C24_Witness ==
    /\ load.pc = "loaded"
    /\ \E n \in DOMAIN configuration.commands :
        /\ configuration.commands[n].executable = <<n>>
        /\ Len(configuration.commands[n].environmentVariables) = 2

\* the index of the first token after the name that is not a declaration,
\* Len(tokens) + 1 when there is none
FirstExecutableToken(tokens) ==
    IF \A j \in 2..Len(tokens) : IsDeclarationToken(tokens[j]) THEN Len(tokens) + 1
    ELSE CHOOSE j \in 2..Len(tokens) :
             /\ ~IsDeclarationToken(tokens[j])
             /\ \A k \in 2..(j - 1) : IsDeclarationToken(tokens[k])

\* a declaration token split at its first "=" at index 1 or later
SplitDeclaration(token) ==
    LET equals == CHOOSE k \in 2..Len(token) :
                      token[k] = EQUALS /\ \A l \in 2..(k - 1) : token[l] # EQUALS
    IN  [first |-> SubSeq(token, 1, equals - 1),
         second |-> SubSeq(token, equals + 1, Len(token))]

\* C25: the tokens after the name are environment declarations, split at
\* the first "=" at index 1 or later, up to the first token that is empty
\* or has no "=" at an index greater than 0; that token and every token
\* after it form the executable list, in order
C25_TokenClassification ==
    [][EntryStep =>
           LET tokens == EntryTokens
               first == FirstExecutableToken(tokens)
               entry == configuration'.commands[tokens[1]]
           IN  /\ entry.environmentVariables =
                      [j \in 1..(first - 2) |-> SplitDeclaration(tokens[j + 1])]
               /\ first <= Len(tokens)
                      => entry.executable = SubSeq(tokens, first, Len(tokens))]_vars

\* a load has returned a command with a declaration whose name starts with
\* "=" and with an executable token that has "=" at an index greater than 0
C25_Witness ==
    /\ load.pc = "loaded"
    /\ \E n \in DOMAIN configuration.commands :
        LET entry == configuration.commands[n]
        IN  /\ \E j \in DOMAIN entry.environmentVariables :
                   entry.environmentVariables[j].first[1] = EQUALS
            /\ \E j \in DOMAIN entry.executable : IsDeclarationToken(entry.executable[j])

\* C26: an entry replaces the command of its name in the global map and in
\* the map of the host it is declared under, and leaves the map of every
\* other host as it is: the global map holds the last declaration of the
\* file, each host's map the declaration made under that host
C26_LastDeclarationAndPerHost ==
    [][EntryStep =>
           LET name == EntryTokens[1]
               hostname == load.currentHost.hostname
               entry == configuration'.commands[name]
           IN  /\ entry.host = load.currentHost
               /\ entry.name = name
               /\ configuration'.hostCommands[hostname][name] = entry
               /\ \A h \in DOMAIN configuration.hostCommands \ {hostname} :
                      configuration'.hostCommands[h] = configuration.hostCommands[h]
               /\ \A n \in DOMAIN configuration.commands \ {name} :
                      configuration'.commands[n] = configuration.commands[n]]_vars

\* a load has returned a command name declared under two hosts with
\* different declarations, the global map holding one of them
C26_Witness ==
    /\ load.pc = "loaded"
    /\ \E n \in DOMAIN configuration.commands :
        \E h1, h2 \in DOMAIN configuration.hostCommands :
            /\ n \in DOMAIN configuration.hostCommands[h1]
            /\ n \in DOMAIN configuration.hostCommands[h2]
            /\ configuration.hostCommands[h1][n].environmentVariables
                   # configuration.hostCommands[h2][n].environmentVariables
            /\ configuration.hostCommands[h1][n].host.port
                   # configuration.hostCommands[h2][n].host.port
            /\ configuration.commands[n] = configuration.hostCommands[h2][n]

\* C27: loading fails, and returns no Configuration, for a text with a key
\* other than baseDirectory before the first host section, an unterminated
\* quoted span, an unrecognised backslash escape, content after a key's
\* value, a port that is not all digits or is 65536 or more, an empty host
\* name, or a line break before the "]" of a host header
C27_BadConfigurationsFail ==
    configurationString \in BadConfigurations => load.pc # "loaded"

\* the executable of the command n after a load
ExecutableOfN == configuration.commands[Bytes("n")].executable

\* a double-quoted span that holds a reference to Y
QuotedReference == Bytes("\"${Y}\"")

\* C28: a token written as "${Y}" in double quotes yields the literal text
\* ${Y}, alone and followed by a single-quoted or an unquoted span
C28_NoSubstitutionInDoubleQuotes ==
    load.pc = "loaded" =>
        /\ configurationString = EntryText(QuotedReference)
               => ExecutableOfN = <<Bytes("${Y}")>>
        /\ configurationString = EntryText(QuotedReference \o Bytes("'q'"))
               => ExecutableOfN = <<Bytes("${Y}q")>>
        /\ configurationString = EntryText(QuotedReference \o Bytes("z"))
               => ExecutableOfN = <<Bytes("${Y}z")>>

\* C29: inside double quotes \xHH yields the byte 16 * H + H for every
\* pair of hex digits 0-9, a-f, A-F, and any other character in place of
\* a hex digit makes the load fail
C29_HexEscape ==
    LET HexDigitValue(c) ==
            IF c >= 48 /\ c <= 57 THEN c - 48
            ELSE IF c >= 97 /\ c <= 102 THEN c - 97 + 10
            ELSE c - 65 + 10
    IN
    load.pc = "loaded" =>
        /\ \A h, l \in DOMAIN HexDigits :
               configurationString = HexText(HexDigits[h], HexDigits[l])
                   => ExecutableOfN
                          = << <<16 * HexDigitValue(HexDigits[h])
                                     + HexDigitValue(HexDigits[l])>> >>
        /\ configurationString \notin {HexText(Ord("g"), Ord("1")),
                                       HexText(Ord("1"), Ord("G"))}

(***************************************************************************)
(* Properties of the substitution                                          *)
(***************************************************************************)
\* the value a reference to a name resolves to: the present override, else
\* the value of the process environment, else the default
Resolved(overrides, name, default) ==
    IF name \in DOMAIN overrides /\ overrides[name] # None THEN overrides[name]
    ELSE IF name \in DOMAIN ServerEnvironment THEN ServerEnvironment[name]
    ELSE default

\* C30: ${NAME} and ${NAME:-DEFAULT} are replaced by the override map's
\* value when the map has a present value for NAME, else by the value of
\* the process environment when NAME is set there, else by DEFAULT when one
\* is given, else by the empty string
C30_ResolutionOrder ==
    substitution.pc = "returned" =>
        \A before, after \in SubstitutionAffixes, name \in SubstitutionNames :
            /\ substitution.in = Reference(before, name, after)
                   => substitution.result
                          = before \o Resolved(substitution.overrides, name, <<>>) \o after
            /\ \A default \in SubstitutionDefaults :
                   substitution.in = ReferenceWithDefault(before, name, default, after)
                       => substitution.result
                              = before \o Resolved(substitution.overrides, name, default)
                                    \o after

\* a reference with a non-empty default was replaced by an override that is
\* the empty string, for a name that the process environment sets too
C30_Witness ==
    /\ substitution.pc = "returned"
    /\ substitution.in = ReferenceWithDefault(<<97>>, <<89>>, <<100>>, <<97>>)
    /\ <<89>> \in DOMAIN substitution.overrides
    /\ substitution.overrides[<<89>>] = <<>>
    /\ substitution.result = <<97, 97>>

(***************************************************************************)
(* Properties of the end of the streams and of the session                 *)
(***************************************************************************)
\* the frame types of the child's output streams
StreamTypes == {STDOUT_DATA, STDERR_DATA}

\* in the bytes the server wrote no frame of a stream follows that stream's
\* zero-length frame, and an EXIT_CODE frame comes after the zero-length
\* frame of both streams
StreamsEnd(bytes) ==
    LET sent == ParseFrames(bytes, TRUE)
        Ends(type) == {i \in 1..Len(sent) : sent[i].type = type /\ sent[i].string = <<>>}
    IN  /\ \A type \in StreamTypes : \A i \in Ends(type) :
              \A j \in (i + 1)..Len(sent) : sent[j].type # type
        /\ \A k \in 1..Len(sent) :
              sent[k].type = EXIT_CODE
                  => \A type \in StreamTypes :
                         /\ Cardinality(Ends(type)) = 1
                         /\ \A i \in Ends(type) : i < k

\* C34: in every session that ends with an EXIT_CODE frame the server has
\* sent before it exactly one zero-length STDOUT_DATA and exactly one
\* zero-length STDERR_DATA frame, and no frame of a stream follows that
\* stream's zero-length frame: it holds after every step that writes to the
\* socket.
C34_StreamsEndBeforeExitCode == [][s2c' # s2c => StreamsEnd(s2c')]_vars

\* C34 witness: a session that ended with EXIT_CODE after a stream carried
\* a non-empty frame and then its zero-length frame
C34_Witness ==
    LET sent == ServerSent
    IN  /\ spc = "done"
        /\ sent # <<>>
        /\ sent[Len(sent)].type = EXIT_CODE
        /\ \E i, j \in 1..Len(sent) :
              /\ i < j
              /\ sent[i].type \in StreamTypes
              /\ sent[j].type = sent[i].type
              /\ sent[i].string # <<>>
              /\ sent[j].string = <<>>

\* the STDIN_DATA frames among the complete frames of the server's bytes
StdinNotices(bytes) ==
    LET sent == ParseFrames(bytes, TRUE)
    IN  {i \in 1..Len(sent) : sent[i].type = STDIN_DATA}

\* a step that adds a STDIN_DATA frame to the server's bytes is the write of
\* pending stdin bytes that found the pipe broken; the frame is the only
\* one, its length is zero and no pending byte is left
NoticeStep(before, after, data, valid, open, left) ==
    StdinNotices(after) # StdinNotices(before)
        => /\ Cardinality(StdinNotices(after)) = 1
           /\ \A i \in StdinNotices(after) :
                  ParseFrames(after, TRUE)[i].value = [high |-> 0, low |-> 0]
           /\ data # <<>>
           /\ valid
           /\ ~open
           /\ left = <<>>

\* C35: the server sends a STDIN_DATA frame only when a write of pending
\* stdin bytes finds the child's stdin pipe broken; the frame has length
\* zero, the pending bytes are dropped, and at most one such frame is sent
\* in a session.
C35_StdinNoticeOnlyWhenBroken ==
    [][s2c' # s2c => NoticeStep(s2c, s2c', stdInData, stdInInput, childStdinOpen,
                                stdInData')]_vars

\* C35 witness: the notice was sent after the child closed its stdin while
\* bytes of the client were pending, and the child still runs
C35_Witness ==
    /\ StdinNotices(s2c) # {}
    /\ stdinCloseCause = "broken"
    /\ stdinAccepted # <<>>
    /\ child = "running"

\* the frame type of a stream of the child
TypeOf(s) == IF s = "out" THEN STDOUT_DATA ELSE STDERR_DATA

\* the frames hold everything the child wrote to the stream, and the
\* stream's zero-length frame
Relayed(sent, s) ==
    /\ Concat(SelectStrings(sent, TypeOf(s))) = childWrote[s]
    /\ \E i \in 1..Len(sent) : sent[i].type = TypeOf(s) /\ sent[i].string = <<>>

\* C36: when the child was terminated by a signal and the client still
\* holds the connection open, the worker that has left Process::run has
\* relayed all of stdout and stderr, has sent no EXIT_CODE frame and has
\* closed the connection; the client does not return an exit code.
C36_SignaledChild ==
    /\ (spc \in {"done", "error", "terminated"} /\ child = "signaled" /\ ~cClosed)
           => LET sent == ServerSent
              IN  /\ CountType(sent, EXIT_CODE) = 0
                  /\ sClosed
                  /\ \A s \in Streams : Relayed(sent, s)
    /\ child = "signaled" => cpc # "returned"

(***************************************************************************)
(* Properties of the child's environment: repeated and undeclared names    *)
(***************************************************************************)
\* the name of an environment string "name=value"
EntryName(string) == Take(string, FindEquals(string, 1) - 1)

\* the indexes of the declarations of a name
DeclarationsOf(decls, name) ==
    {i \in 1..Len(decls) : DeclarationName(decls[i].first) = name}

FirstOf(indexes) == CHOOSE i \in indexes : \A j \in indexes : i <= j

LastOf(indexes) == CHOOSE i \in indexes : \A j \in indexes : j <= i

\* the value the k-th declaration resolves its name to, after the
\* declarations before it were resolved in order
ResolvedBy(decls, k, received) ==
    ResolveDeclaration(decls[k], received,
                       ResolveAll(SubSeq(decls, 1, k - 1), received, <<>>))
        [DeclarationName(decls[k].first)]

\* C37: once the child is spawned its environment has at most one entry per
\* name; every declared name has the value its last declaration resolved,
\* and no entry when that value is absent; and the entries stand in the
\* order of the first declarations of their names.
C37_OneEntryPerName ==
    child # "none" =>
        LET decls == command.environment
            names == {DeclarationName(decls[i].first) : i \in 1..Len(decls)}
        IN  /\ \A i, j \in 1..Len(environment) :
                  EntryName(environment[i]) = EntryName(environment[j]) => i = j
            /\ \A i \in 1..Len(environment) : EntryName(environment[i]) \in names
            /\ \A name \in names :
                  LET value == ResolvedBy(decls, LastOf(DeclarationsOf(decls, name)),
                                          receivedEnvironmentVariables)
                  IN  /\ ChildValue(environment, name) = value
                      /\ value = None
                             => \A i \in 1..Len(environment) :
                                    EntryName(environment[i]) # name
            /\ \A i, j \in 1..Len(environment) :
                  i < j => FirstOf(DeclarationsOf(decls, EntryName(environment[i])))
                               < FirstOf(DeclarationsOf(decls, EntryName(environment[j])))

\* C37 witness: X is declared first and last with Y between them; the
\* child's X has the value of the last declaration and stands before Y
C37_Witness ==
    /\ child # "none"
    /\ Len(command.environment) = 3
    /\ DeclarationsOf(command.environment, <<88>>) = {1, 3}
    /\ clientEnv[<<88>>] = None
    /\ Len(environment) = 2
    /\ environment[1] = <<88, EQUALS, 102>>
    /\ EntryName(environment[2]) = <<89>>

(***************************************************************************)
(* A peer that sends environment variables the command does not declare    *)
(***************************************************************************)
\* the most ENVIRONMENT_VARIABLE frames the peer writes
MaxEnvironmentFrames == 2

\* "c X=${W} ?Y /bin/c": a declared value that refers to a name the command
\* does not declare
CommandWithReference ==
    [name |-> <<99>>,
     environment |-> << [first |-> <<88>>, second |-> <<36, 123, 87, 125>>],
                        [first |-> <<QUESTION, 89>>, second |-> <<>>] >>]

\* the strings of the peer's frames: "W=v", "W", "X=v", "X", "Y=" and "V=w"
PeerEnvironmentStrings ==
    {<<87, EQUALS, 118>>, <<87>>, <<88, EQUALS, 118>>, <<88>>, <<89, EQUALS>>,
     <<86, EQUALS, 119>>}

PeerSendEnvironmentVariable ==
    /\ cpc = "none"
    /\ rawFrames < MaxEnvironmentFrames
    /\ \E string \in PeerEnvironmentStrings :
         c2s' = c2s \o Frame(ENVIRONMENT_VARIABLE, string)
    /\ rawFrames' = rawFrames + 1
    /\ UNCHANGED <<configVars, s2c, cClosed, sClosed, clientVars, serverVars, childVars,
                   observedVars>>

PeerSendStartCommand ==
    /\ cpc = "none"
    /\ rawFrames <= MaxEnvironmentFrames
    /\ c2s' = c2s \o Frame(START_COMMAND, command.name)
    /\ rawFrames' = MaxEnvironmentFrames + 1
    /\ UNCHANGED <<configVars, s2c, cClosed, sClosed, clientVars, serverVars, childVars,
                   observedVars>>

InitUndeclared ==
    InitFrom("none", {Command, CommandWithReference} \cup CommandsWithRepeats,
             ClientEnvironments)

NextUndeclared ==
    \/ PeerSendEnvironmentVariable
    \/ PeerSendStartCommand
    \/ SrvPrologueFrame
    \/ SrvPrologueString
    \/ SrvSpawn

SpecUndeclared == InitUndeclared /\ [][NextUndeclared]_vars

(***************************************************************************)
(* Properties of the child's environment: undeclared names                 *)
(***************************************************************************)
\* the name an ENVIRONMENT_VARIABLE string is about
SentName(string) ==
    IF FindEquals(string, 1) = 0 THEN string ELSE EntryName(string)

\* the map the prologue stores for a sequence of ENVIRONMENT_VARIABLE
\* strings, received in order
RECURSIVE ReceiveAll(_, _)
ReceiveAll(strings, received) ==
    IF strings = <<>> THEN received
    ELSE ReceiveAll(Tail(strings), ReceiveEnvironmentVariable(received, Head(strings)))

\* the strings that are about one of the names
RECURSIVE AboutNames(_, _)
AboutNames(strings, names) ==
    IF strings = <<>> THEN <<>>
    ELSE (IF SentName(Head(strings)) \in names THEN <<Head(strings)>> ELSE <<>>)
         \o AboutNames(Tail(strings), names)

\* the ENVIRONMENT_VARIABLE strings the peer has sent
SentEnvironment == SelectStrings(ParseFrames(c2s, FALSE), ENVIRONMENT_VARIABLE)

\* C40: the child's environment holds entries for declared names only, and
\* it is the environment of the session in which the frames for undeclared
\* names were never sent: such a frame adds no entry and changes no
\* declared variable's value.
C40_UndeclaredIgnored ==
    child # "none" =>
        LET decls == command.environment
            names == {DeclarationName(decls[i].first) : i \in 1..Len(decls)}
        IN  /\ \A i \in 1..Len(environment) : EntryName(environment[i]) \in names
            /\ environment
                   = ComposeEnvironment(decls,
                                        ReceiveAll(AboutNames(SentEnvironment, names), <<>>))

\* the child runs after the peer sent a value for a name the command does
\* not declare but one of its declared values refers to
C40_Witness ==
    /\ child # "none"
    /\ command = CommandWithReference
    /\ <<87>> \in DOMAIN receivedEnvironmentVariables
    /\ receivedEnvironmentVariables[<<87>>] = <<118>>
    /\ <<88>> \notin DOMAIN receivedEnvironmentVariables

(***************************************************************************)
(* BufferedSendSocket and BufferedReceiveSocket over one socket            *)
(***************************************************************************)
\* the size both buffers start with, scaled down from INITIAL_MTU_SIZE so
\* that frames fill the buffers, outgrow them and straddle their ends
BufferSize == 8

\* the most frames the sender writes
MaxFrames == 2

\* the strings of the frames: empty, one byte, and more bytes than a buffer
\* holds next to a header
FrameStrings == {<<>>, <<7>>, <<1, 2, 3, 4>>}

FrameInputs ==
    [type : {STDIN_DATA, STDOUT_DATA}, string : FrameStrings, flush : BOOLEAN]

\* BufferedSendSocket::write: a buffer without room for the frame is flushed
\* first, and resized when the frame is larger than the buffer
BufferedWrite(send, type, string, flush) ==
    LET noRoom == 5 + Len(string) > send.size - Len(send.data)
        first == IF noRoom THEN send.data ELSE <<>>
        kept == IF noRoom THEN <<>> ELSE send.data
        size == IF noRoom /\ 5 + Len(string) > send.size THEN 5 + Len(string)
                ELSE send.size
        appended == kept \o Frame(type, string)
    IN  IF flush THEN [data |-> <<>>, size |-> size, sent |-> first \o appended]
        ELSE [data |-> appended, size |-> size, sent |-> first]

\* the start of BufferedReceiveSocket::read when fewer than 5 bytes are
\* buffered: the bytes move to the front of the buffer
Compacted_Dropped(recv) == [recv EXCEPT !.data = <<>>, !.readOffset = 0]

Compacted(recv) ==
    [recv EXCEPT !.data = Drop(recv.data, recv.readOffset), !.readOffset = 0]

\* the bytes buffered and not yet consumed (_end - _readOffset)
Buffered(recv) == Len(recv.data) - recv.readOffset

BufferedStart ==
    \E frames \in UNION {[1..n -> FrameInputs] : n \in 0..MaxFrames} :
        buffered = [pc |-> "read", frames |-> frames, next |-> 1,
                    send |-> [data |-> <<>>, size |-> BufferSize],
                    wire |-> <<>>, sent |-> 0, closed |-> FALSE,
                    recv |-> [data |-> <<>>, readOffset |-> 0],
                    type |-> 0, value |-> 0, string |-> <<>>,
                    received |-> <<>>, reads |-> 0]

\* the sender writes its next frame
SenderWrite ==
    /\ buffered.pc # "idle"
    /\ ~buffered.closed
    /\ buffered.next <= Len(buffered.frames)
    /\ LET frame == buffered.frames[buffered.next]
           written == BufferedWrite(buffered.send, frame.type, frame.string, frame.flush)
       IN  buffered' = [buffered EXCEPT
                            !.next = @ + 1,
                            !.send = [data |-> written.data, size |-> written.size],
                            !.wire = @ \o written.sent,
                            !.sent = @ + Len(written.sent)]
    /\ UNCHANGED <<runVars, mainVars, loadVars, argumentVars, substitution, connecting,
                 relativized, threading, events>>

\* ~BufferedSendSocket: flush, then the socket closes
SenderDestroy ==
    /\ buffered.pc # "idle"
    /\ ~buffered.closed
    /\ buffered.next > Len(buffered.frames)
    /\ buffered' = [buffered EXCEPT
                        !.send = [@ EXCEPT !.data = <<>>],
                        !.wire = @ \o buffered.send.data,
                        !.sent = @ + Len(buffered.send.data),
                        !.closed = TRUE]
    /\ UNCHANGED <<runVars, mainVars, loadVars, argumentVars, substitution, connecting,
                 relativized, threading, events>>

\* the connection ends while Socket::write sends the bytes of a write: a
\* proper prefix of them is in flight
SenderCut ==
    /\ buffered.pc # "idle"
    /\ ~buffered.closed
    /\ buffered.next <= Len(buffered.frames)
    /\ LET frame == buffered.frames[buffered.next]
           written == BufferedWrite(buffered.send, frame.type, frame.string, frame.flush)
       IN  \E k \in 0..(Len(written.sent) - 1) :
               buffered' = [buffered EXCEPT
                                !.next = @ + 1,
                                !.send = [data |-> <<>>, size |-> written.size],
                                !.wire = @ \o Take(written.sent, k),
                                !.sent = @ + k,
                                !.closed = TRUE]
    /\ UNCHANGED <<runVars, mainVars, loadVars, argumentVars, substitution, connecting,
                 relativized, threading, events>>

\* BufferedReceiveSocket::read with 5 bytes buffered: the type and the value
ReceiveHeader ==
    /\ buffered.pc = "read"
    /\ Buffered(buffered.recv) >= 5
    /\ LET recv == buffered.recv
       IN  buffered' = [buffered EXCEPT
                            !.pc = "readString",
                            !.type = recv.data[recv.readOffset + 1],
                            !.value = Length(ReadU32(recv.data, recv.readOffset + 1)),
                            !.string = <<>>,
                            !.recv = [@ EXCEPT !.readOffset = @ + 5]]
    /\ UNCHANGED <<runVars, mainVars, loadVars, argumentVars, substitution, connecting,
                 relativized, threading, events>>

\* BufferedReceiveSocket::read with fewer bytes: the buffered bytes move to
\* the front and Socket::read returns some of the bytes in flight
ReceiveHeaderFill ==
    /\ buffered.pc = "read"
    /\ Buffered(buffered.recv) < 5
    /\ buffered.wire # <<>>
    /\ LET recv == Compacted(buffered.recv)
       IN  \E k \in 1..Min(Len(buffered.wire), BufferSize - Len(recv.data)) :
               buffered' = [buffered EXCEPT
                                !.recv = [recv EXCEPT !.data = @ \o Take(buffered.wire, k)],
                                !.wire = Drop(@, k),
                                !.reads = Min(@ + 1, 3)]
    /\ UNCHANGED <<runVars, mainVars, loadVars, argumentVars, substitution, connecting,
                 relativized, threading, events>>

\* Socket::read returns 0: read returns false
ReceiveHeaderClosed ==
    /\ buffered.pc = "read"
    /\ Buffered(buffered.recv) < 5
    /\ buffered.wire = <<>>
    /\ buffered.closed
    /\ buffered' = [buffered EXCEPT !.pc = "closed", !.recv = Compacted(@)]
    /\ UNCHANGED <<runVars, mainVars, loadVars, argumentVars, substitution, connecting,
                 relativized, threading, events>>

\* BufferedReceiveSocket::readString, one pass of its loop: the buffered
\* bytes go to the string and Socket::read fills the buffer from its start
ReceiveStringFill ==
    /\ buffered.pc = "readString"
    /\ Buffered(buffered.recv) < buffered.value - Len(buffered.string)
    /\ buffered.wire # <<>>
    /\ \E k \in 1..Min(Len(buffered.wire), BufferSize) :
           buffered' = [buffered EXCEPT
                            !.string = @ \o Drop(buffered.recv.data,
                                                 buffered.recv.readOffset),
                            !.recv = [data |-> Take(buffered.wire, k), readOffset |-> 0],
                            !.wire = Drop(@, k),
                            !.reads = Min(@ + 1, 3)]
    /\ UNCHANGED <<runVars, mainVars, loadVars, argumentVars, substitution, connecting,
                 relativized, threading, events>>

\* Socket::read returns 0 inside the string: LOG_ERROR
ReceiveStringClosed ==
    /\ buffered.pc = "readString"
    /\ Buffered(buffered.recv) < buffered.value - Len(buffered.string)
    /\ buffered.wire = <<>>
    /\ buffered.closed
    /\ buffered' = [buffered EXCEPT
                        !.pc = "error",
                        !.string = @ \o Drop(buffered.recv.data, buffered.recv.readOffset),
                        !.recv = [data |-> <<>>, readOffset |-> 0]]
    /\ UNCHANGED <<runVars, mainVars, loadVars, argumentVars, substitution, connecting,
                 relativized, threading, events>>

\* readString returns: the rest of the string is in the buffer; a buffer
\* read to its end is reset
ReceiveString ==
    /\ buffered.pc = "readString"
    /\ Buffered(buffered.recv) >= buffered.value - Len(buffered.string)
    /\ LET recv == buffered.recv
           remaining == buffered.value - Len(buffered.string)
           string == buffered.string
                         \o SubSeq(recv.data, recv.readOffset + 1,
                                   recv.readOffset + remaining)
       IN  buffered' = [buffered EXCEPT
                            !.pc = "read",
                            !.string = <<>>,
                            !.recv = IF recv.readOffset + remaining = Len(recv.data)
                                     THEN [data |-> <<>>, readOffset |-> 0]
                                     ELSE [recv EXCEPT !.readOffset = @ + remaining],
                            !.received = Append(@, [type |-> buffered.type,
                                                    length |-> buffered.value,
                                                    string |-> string])]
    /\ UNCHANGED <<runVars, mainVars, loadVars, argumentVars, substitution, connecting,
                 relativized, threading, events>>

InitBuffered ==
    /\ InitMain({FALSE}, {FALSE}, {TRUE}, {-1}, {-1})
    /\ InitRun("none", {Command}, {[n \in {<<88>>, <<89>>, <<90>>} |-> None]})
    /\ LoadIdle
    /\ ArgumentsIdle
    /\ SubstitutionIdle
    /\ BufferedStart
    /\ ConnectIdle
    /\ RelativizeIdle
    /\ ThreadsIdle
    /\ EventsIdle

NextBuffered ==
    \/ SenderWrite
    \/ SenderDestroy
    \/ SenderCut
    \/ ReceiveHeader
    \/ ReceiveHeaderFill
    \/ ReceiveHeaderClosed
    \/ ReceiveStringFill
    \/ ReceiveStringClosed
    \/ ReceiveString

SpecBuffered == InitBuffered /\ [][NextBuffered]_vars

(***************************************************************************)
(* Properties of the buffered sockets                                      *)
(***************************************************************************)
\* what the receiver is to return for the frames the sender has written
Written(frames) ==
    [i \in 1..Len(frames) |->
        [type |-> frames[i].type, length |-> Len(frames[i].string),
         string |-> frames[i].string]]

\* the bytes of the frames
RECURSIVE FrameBytes(_)
FrameBytes(frames) ==
    IF frames = <<>> THEN <<>>
    ELSE Frame(Head(frames).type, Head(frames).string) \o FrameBytes(Tail(frames))

\* the number of frames that are in the byte stream to their last byte
Whole ==
    Cardinality({n \in 1..Len(buffered.frames) :
                    Len(FrameBytes(SubSeq(buffered.frames, 1, n))) <= buffered.sent})

\* the bytes of the stream after its last whole frame
Leftover == buffered.sent - Len(FrameBytes(SubSeq(buffered.frames, 1, Whole)))

\* C31: whatever the sender defers or flushes and however the bytes are
\* split across the receiver's socket reads, the receiver returns the
\* frames that were written, in order, each with its type, its length (the
\* four little-endian bytes of the header) and its string; at the end of
\* the stream it has returned every frame the stream holds; it fails
\* exactly when the stream ends inside a string.
C31_RoundTrip ==
    buffered.pc # "idle" =>
        LET expected == Written(buffered.frames)
            received == buffered.received
        IN  /\ Len(received) <= Whole
            /\ received = SubSeq(expected, 1, Len(received))
            /\ \A i \in 1..Len(received) :
                   /\ Len(received[i].string) = received[i].length
                   /\ U32LE(received[i].length)
                          = SubSeq(Frame(buffered.frames[i].type, buffered.frames[i].string),
                                   2, 5)
            /\ buffered.pc \in {"closed", "error"} => Len(received) = Whole
            /\ buffered.pc = "closed" => Leftover < 5
            /\ buffered.pc = "error" => Leftover >= 5

\* both frames were returned after a header was put together from two
\* socket reads and a string from more than one
C31_Witness ==
    /\ buffered.pc = "closed"
    /\ Len(buffered.received) = MaxFrames
    /\ buffered.received[1].string = <<7>>
    /\ buffered.received[2].string = <<1, 2, 3, 4>>
    /\ buffered.reads = 3
    /\ ~buffered.frames[1].flush
    /\ Leftover = 0

\* the stream ended inside the second frame's string and the receiver failed
C31_WitnessError ==
    /\ buffered.pc = "error"
    /\ Len(buffered.received) = 1
    /\ buffered.string # <<>>

(***************************************************************************)
(* runRemoteCommand: connecting to the server                              *)
(***************************************************************************)
\* the most calls of Socket::connect
MaxAttempts == 8

\* std::chrono::steady_clock::time_point::max(), later than every time the
\* clock reaches
TimePointMax == 1000000

\* connect_timeout_ms of the configuration
ConnectTimeouts == {-1, 0, 20, 100, 3000}

\* the milliseconds a failed Socket::connect takes
ConnectDurations == {0, 5}

\* the milliseconds sleep_until returns after the time it was given
SleepOvershoots == {0, 2}

\* the first value of backoff
InitialBackoff == 16

\* the largest backoff
MaxBackoff == 1000

\* the backoff of the next wait
NextBackoff(backoff) ==
    IF backoff * 2 > MaxBackoff THEN MaxBackoff ELSE backoff * 2

\* the argument of sleep_until
SleepTarget(sleepUntil, deadline) ==
    IF sleepUntil < deadline THEN sleepUntil ELSE deadline

ConnectStart ==
    \E timeout \in ConnectTimeouts :
        connecting = [pc |-> "connect", now |-> 0, timeout |-> timeout,
                      endTime |-> IF timeout >= 0 THEN timeout ELSE TimePointMax,
                      backoff |-> InitialBackoff, attempts |-> 0, waits |-> <<>>,
                      wrote |-> FALSE]

\* Socket::connect returns a valid socket: the loop ends
ConnectSucceeds ==
    /\ connecting.pc = "connect"
    /\ connecting.attempts < MaxAttempts
    /\ connecting' = [connecting EXCEPT !.pc = "connected", !.attempts = @ + 1]
    /\ UNCHANGED <<runVars, mainVars, loadVars, argumentVars, substitution, buffered,
                 relativized, threading, events>>

\* Socket::connect fails and the body of the loop runs: past the deadline
\* the loop ends, otherwise the thread sleeps
ConnectFails ==
    /\ connecting.pc = "connect"
    /\ connecting.attempts < MaxAttempts
    /\ \E duration \in ConnectDurations, overshoot \in SleepOvershoots :
         LET time == connecting.now + duration
             backoff == NextBackoff(connecting.backoff)
             target == SleepTarget(time + backoff, connecting.endTime)
         IN  IF time >= connecting.endTime
             THEN connecting' = [connecting EXCEPT
                                     !.pc = "failed", !.now = time, !.attempts = @ + 1]
             ELSE connecting' = [connecting EXCEPT
                                     !.now = target + overshoot,
                                     !.attempts = @ + 1,
                                     !.backoff = backoff,
                                     !.waits = Append(@, [from |-> time, until |-> target,
                                                          backoff |-> backoff])]
    /\ UNCHANGED <<runVars, mainVars, loadVars, argumentVars, substitution, buffered,
                 relativized, threading, events>>

\* after the loop: LOG_ERROR without a valid socket, else the first write
ConnectDone ==
    /\ connecting.pc \in {"connected", "failed"}
    /\ connecting' = [connecting EXCEPT
                          !.pc = IF connecting.pc = "failed" THEN "error" ELSE "sent",
                          !.wrote = connecting.pc = "connected"]
    /\ UNCHANGED <<runVars, mainVars, loadVars, argumentVars, substitution, buffered,
                 relativized, threading, events>>

InitConnect ==
    /\ InitMain({FALSE}, {FALSE}, {TRUE}, {-1}, {-1})
    /\ InitRun("none", {Command}, {[n \in {<<88>>, <<89>>, <<90>>} |-> None]})
    /\ LoadIdle
    /\ ArgumentsIdle
    /\ SubstitutionIdle
    /\ BufferedIdle
    /\ ConnectStart
    /\ RelativizeIdle
    /\ ThreadsIdle
    /\ EventsIdle

NextConnect == ConnectSucceeds \/ ConnectFails \/ ConnectDone

SpecConnect == InitConnect /\ [][NextConnect]_vars

(***************************************************************************)
(* Properties of the connect loop                                          *)
(***************************************************************************)
\* 16, 32, 64, ..., 1000, 1000, ...: the wait before the k-th retry
RECURSIVE Doubled(_)
Doubled(k) ==
    IF k = 1 THEN InitialBackoff
    ELSE IF Doubled(k - 1) * 2 > MaxBackoff THEN MaxBackoff ELSE Doubled(k - 1) * 2

\* C32: the wait before the k-th retry is 16 ms doubled k - 1 times and at
\* most 1000 ms, cut short at the connect deadline; no wait ends after the
\* deadline; a client that reaches the deadline without a connection fails
\* and has written nothing.
C32_BackoffFrom16 ==
    connecting.pc # "idle" =>
        /\ \A k \in 1..Len(connecting.waits) :
               LET wait == connecting.waits[k]
               IN  /\ wait.until = Min(wait.from + Doubled(k), connecting.endTime)
                   /\ wait.until <= connecting.endTime
        /\ connecting.pc = "error" => ~connecting.wrote

\* the waits the loop makes: 32 ms before the first retry, and no wait
\* past the deadline
WaitsFrom32 ==
    connecting.pc # "idle" =>
        /\ \A k \in 1..Len(connecting.waits) :
               LET wait == connecting.waits[k]
               IN  /\ wait.until = Min(wait.from + Doubled(k + 1), connecting.endTime)
                   /\ wait.until <= connecting.endTime
        /\ connecting.pc = "error" => ~connecting.wrote
        /\ connecting.pc \in {"failed", "error"} => connecting.now >= connecting.endTime

\* the client has waited seven times, the last two for 1000 ms, and then
\* failed at its deadline
SevenWaits ==
    /\ connecting.pc = "error"
    /\ Len(connecting.waits) = 7
    /\ connecting.waits[6].backoff = MaxBackoff
    /\ connecting.waits[7].until = connecting.endTime

(***************************************************************************)
(* Utilities::relativizePath                                               *)
(***************************************************************************)
\* the most characters of the parent and of the path
MaxParentLen == 4

MaxPathLen == 5

DOT == 46

\* the characters of the paths: the separator, the dot and two letters
PathChars == {SLASH, DOT, 97, 98}

\* a component ".." of the string
HasDotDot(s) ==
    \E k \in 1..(Len(s) - 1) :
        /\ s[k] = DOT /\ s[k + 1] = DOT
        /\ k = 1 \/ s[k - 1] = SLASH
        /\ k + 1 = Len(s) \/ s[k + 2] = SLASH

\* absolute paths as getWorkingDirectory and the base directory hold them,
\* not normalised
AbsolutePaths(n) ==
    {s \in UNION {[1..m -> PathChars] : m \in 1..n} : s[1] = SLASH /\ ~HasDotDot(s)}

\* isPathSeparator on POSIX
IsPathSeparator(c) == c = SLASH

\* the loop that skips any '/' or '/./'
RECURSIVE SkipSeparators(_, _)
SkipSeparators(s, k) ==
    IF \/ IsPathSeparator(CharAt(s, k))
       \/ /\ CharAt(s, k) = DOT
          /\ k + 1 = Len(s) \/ IsPathSeparator(CharAt(s, k + 1))
    THEN SkipSeparators(s, k + 1)
    ELSE k

\* the for loop of relativizePath from the offsets i (path) and j (parent);
\* None stands for the LOG_ERROR
RECURSIVE RelativizeFrom(_, _, _, _)
RelativizeFrom(parent, path, i, j) ==
    LET Compare(i2, j2) ==
            IF CharAt(parent, j2) # CharAt(path, i2) THEN None
            ELSE RelativizeFrom(parent, path, i2 + 1, j2 + 1)
        Boundary(i2, j2) ==
            IF j2 = Len(parent) THEN Drop(path, i2) ELSE Compare(i2, j2)
    IN  IF j = Len(parent) \/ IsPathSeparator(CharAt(parent, j))
        THEN (IF i < Len(path) /\ ~IsPathSeparator(CharAt(path, i)) THEN None
              ELSE Boundary(SkipSeparators(path, i), SkipSeparators(parent, j)))
        ELSE Compare(i, j)

\* a relativizePath that does not look at the path where the parent ends
RelativizePath_Prefix(parent, path) ==
    IF IsPrefix(parent, path) THEN Drop(path, SkipSeparators(path, Len(parent)))
    ELSE RelativizeFrom(parent, path, 0, 0)

RelativizePath(parent, path) == RelativizeFrom(parent, path, 0, 0)

RelativizeStart ==
    \E parent \in AbsolutePaths(MaxParentLen), path \in AbsolutePaths(MaxPathLen) :
        relativized = [pc |-> "call", parent |-> parent, path |-> path, result |-> <<>>]

Relativize ==
    /\ relativized.pc = "call"
    /\ relativized' =
           [relativized EXCEPT
               !.pc = "returned",
               !.result = RelativizePath(relativized.parent, relativized.path)]
    /\ UNCHANGED <<runVars, mainVars, loadVars, argumentVars, substitution, buffered,
                   connecting, threading, events>>

InitRelativize ==
    /\ InitMain({FALSE}, {FALSE}, {TRUE}, {-1}, {-1})
    /\ InitRun("none", {Command}, {[n \in {<<88>>, <<89>>, <<90>>} |-> None]})
    /\ LoadIdle
    /\ ArgumentsIdle
    /\ SubstitutionIdle
    /\ BufferedIdle
    /\ ConnectIdle
    /\ RelativizeStart
    /\ ThreadsIdle
    /\ EventsIdle

NextRelativize == Relativize

SpecRelativize == InitRelativize /\ [][NextRelativize]_vars

(***************************************************************************)
(* Properties of relativizePath                                            *)
(***************************************************************************)
\* the components of a path: what stands between separators, without the
\* empty components and the components "."
RECURSIVE Components(_, _)
Components(s, current) ==
    LET done == IF current \in {<<>>, <<DOT>>} THEN <<>> ELSE <<current>>
    IN  IF s = <<>> THEN done
        ELSE IF Head(s) = SLASH THEN done \o Components(Tail(s), <<>>)
        ELSE Components(Tail(s), Append(current, Head(s)))

\* C33: relativizePath succeeds exactly when the components of the parent
\* (repeated separators and "." components left out on both sides) are the
\* first components of the path; it then returns the rest of the path from
\* the first component below the parent on, and an error otherwise: a path
\* whose component only begins like the parent's last one, or the other
\* way round, is rejected.
C33_Relativize ==
    relativized.pc = "returned" =>
        LET above == Components(relativized.parent, <<>>)
            whole == Components(relativized.path, <<>>)
            result == relativized.result
            below == Len(above) <= Len(whole) /\ SubSeq(whole, 1, Len(above)) = above
        IN  /\ result = None <=> ~below
            /\ below =>
                   /\ Components(result, <<>>) = SubSeq(whole, Len(above) + 1, Len(whole))
                   /\ \E k \in 0..Len(relativized.path) : result = Drop(relativized.path, k)
                   /\ result = <<>> \/ Head(result) # SLASH
                   /\ SkipSeparators(result, 0) = 0

\* the path is below the parent, with a "." component and a repeated
\* separator skipped on the way
C33_Witness ==
    /\ relativized.pc = "returned"
    /\ relativized.parent = <<SLASH, 97, SLASH, DOT>>
    /\ relativized.path = <<SLASH, SLASH, 97, SLASH, 98>>
    /\ relativized.result = <<98>>

\* a sibling that begins like the parent is rejected
C33_WitnessSibling ==
    /\ relativized.pc = "returned"
    /\ relativized.parent = <<SLASH, 97>>
    /\ relativized.path = <<SLASH, 97, 98>>
    /\ relativized.result = None

(***************************************************************************)
(* mainServer with a thread for every connection                           *)
(***************************************************************************)
\* the most connections the server accepts
MaxThreads == 4

ThreadsStart ==
    \E wait \in BOOLEAN :
        threading = [pc |-> "loop", waitOnClientConnections |-> wait,
                     connectionCount |-> 0, threads |-> <<>>, joined |-> FALSE]

\* the thread the new client thread is handed: std::move(clientThread), the
\* thread started before it, or none (0) for the first connection
ChainedThread_None(clientThread) == 0

ChainedThread(clientThread) == clientThread

\* a connection is accepted: clientThread becomes a new thread that owns
\* the thread that was clientThread
ThreadAccept ==
    /\ threading.pc = "loop"
    /\ Len(threading.threads) < MaxThreads
    /\ threading' =
           [threading EXCEPT
               !.threads = Append(@, [state |-> "session",
                                      chainedThread |-> ChainedThread(Len(@))]),
               !.connectionCount = @ + 1]
    /\ UNCHANGED <<runVars, mainVars, loadVars, argumentVars, substitution, buffered,
                   connecting, relativized, events>>

\* a client thread: Process::run returns and the socket is closed; a thread
\* whose chained thread is joinable goes on to join it
ThreadSessionEnds ==
    /\ threading.pc # "idle"
    /\ \E k \in 1..Len(threading.threads) :
         /\ threading.threads[k].state = "session"
         /\ threading' =
                [threading EXCEPT
                    !.threads[k].state =
                        IF threading.threads[k].chainedThread # 0 THEN "join"
                        ELSE "finished"]
    /\ UNCHANGED <<runVars, mainVars, loadVars, argumentVars, substitution, buffered,
                   connecting, relativized, events>>

\* chainedThread.join() returns: the chained thread has finished
ThreadJoinReturns ==
    /\ threading.pc # "idle"
    /\ \E k \in 1..Len(threading.threads) :
         /\ threading.threads[k].state = "join"
         /\ threading.threads[threading.threads[k].chainedThread].state = "finished"
         /\ threading' = [threading EXCEPT !.threads[k].state = "finished"]
    /\ UNCHANGED <<runVars, mainVars, loadVars, argumentVars, substitution, buffered,
                   connecting, relativized, events>>

\* the accept loop ends: the main thread joins clientThread, detaches it,
\* or has none
MainLeavesLoop ==
    /\ threading.pc = "loop"
    /\ threading' =
           [threading EXCEPT
               !.pc = IF threading.waitOnClientConnections
                         /\ threading.connectionCount # 0
                      THEN "join" ELSE "cleanup"]
    /\ UNCHANGED <<runVars, mainVars, loadVars, argumentVars, substitution, buffered,
                   connecting, relativized, events>>

\* clientThread.join() returns
MainJoinReturned ==
    /\ threading.pc = "join"
    /\ threading.threads[Len(threading.threads)].state = "finished"
    /\ threading' = [threading EXCEPT !.pc = "cleanup", !.joined = TRUE]
    /\ UNCHANGED <<runVars, mainVars, loadVars, argumentVars, substitution, buffered,
                   connecting, relativized, events>>

InitThreads ==
    /\ InitMain({FALSE}, {FALSE}, {TRUE}, {-1}, {-1})
    /\ InitRun("none", {Command}, {[n \in {<<88>>, <<89>>, <<90>>} |-> None]})
    /\ LoadIdle
    /\ ArgumentsIdle
    /\ SubstitutionIdle
    /\ BufferedIdle
    /\ ConnectIdle
    /\ RelativizeIdle
    /\ ThreadsStart
    /\ EventsIdle

NextThreads ==
    \/ ThreadAccept
    \/ ThreadSessionEnds
    \/ ThreadJoinReturns
    \/ MainLeavesLoop
    \/ MainJoinReturned

SpecThreads == InitThreads /\ [][NextThreads]_vars

(***************************************************************************)
(* Properties of the client threads                                        *)
(***************************************************************************)
\* C38: with waiting enabled and a connection accepted, the main thread's
\* join on clientThread, the thread started last, has returned only if every
\* client thread that was started has finished its session and ended, in
\* whatever order the sessions ended.
C38_JoinAwaitsAllThreads ==
    (threading.pc # "idle" /\ threading.joined)
        => \A k \in 1..Len(threading.threads) : threading.threads[k].state = "finished"

\* the join has returned after three sessions
C38_Witness ==
    /\ threading.pc = "cleanup"
    /\ threading.joined
    /\ Len(threading.threads) = 3

\* the session of the thread started last has ended before the join and
\* the first thread's session still runs: the join does not return
C38_WitnessWaiting ==
    /\ threading.pc = "join"
    /\ Len(threading.threads) = 3
    /\ threading.threads[3].state = "join"
    /\ threading.threads[1].state = "session"

(***************************************************************************)
(* The reader threads and relay loops of concurrent connections            *)
(***************************************************************************)
\* the connections one server process serves at the same time
Connections == 1..2

\* the most reads of a child's stdout that return data
MaxPipeReads == 2

\* a DWORD that was never assigned
Unassigned == -1

\* the name of the event objects of a connection's stdout data:
\* CreateEventA returns the existing object when the name is in use
EventName_PerConnection(connection) == connection

EventName(connection) == "StdOutData"

\* Process::run reaches its relay loop: the SynchronousData with its two
\* events, and the detached thread that runs readData
RelayStarts ==
    /\ events.pc # "idle"
    /\ \E c \in Connections :
         /\ events.data[c].reader = "none"
         /\ events' = [events EXCEPT
                           !.data[c] = [@ EXCEPT !.reader = "read", !.relay = "wait",
                                                 !.name = EventName(c)]]
    /\ UNCHANGED <<runVars, mainVars, loadVars, argumentVars, substitution, buffered,
                   connecting, relativized, threading>>

\* readData: ReadFile returns and the reader sets the data-available
\* event; after data it waits for the data-read event
ReaderRead ==
    /\ events.pc # "idle"
    /\ \E c \in Connections, length \in {0, 1} :
         /\ events.data[c].reader = "read"
         /\ length = 1 => events.data[c].reads < MaxPipeReads
         /\ events' = [events EXCEPT
                           !.data[c] = [@ EXCEPT
                                           !.length = length,
                                           !.reads = @ + length,
                                           !.reader = IF length > 0 THEN "wait"
                                                      ELSE "done"],
                           !.dataAvailable[events.data[c].name] = c]
    /\ UNCHANGED <<runVars, mainVars, loadVars, argumentVars, substitution, buffered,
                   connecting, relativized, threading>>

\* readData: WaitForSingleObject on the data-read event returns and resets
\* the event
ReaderResumes ==
    /\ events.pc # "idle"
    /\ \E c \in Connections :
         /\ events.data[c].reader = "wait"
         /\ events.dataRead[events.data[c].name] # 0
         /\ events' = [events EXCEPT
                           !.data[c] = [@ EXCEPT
                                           !.reader = "read",
                                           !.observed =
                                               @ \cup {events.dataRead[events.data[c].name]}],
                           !.dataRead[events.data[c].name] = 0]
    /\ UNCHANGED <<runVars, mainVars, loadVars, argumentVars, substitution, buffered,
                   connecting, relativized, threading>>

\* the relay loop: WaitForMultipleObjects returns for the data-available
\* event and resets it; the loop takes _length and the buffer, sets the
\* data-read event, sends the frame and closes the pipe on a length of 0
RelayStdout ==
    /\ events.pc # "idle"
    /\ \E c \in Connections :
         /\ events.data[c].relay = "wait"
         /\ events.dataAvailable[events.data[c].name] # 0
         /\ \E received \in IF events.data[c].length = Unassigned THEN {0, 1}
                            ELSE {events.data[c].length} :
              events' = [events EXCEPT
                            !.data[c] = [@ EXCEPT
                                            !.relay = IF received = 0 THEN "closed"
                                                      ELSE "wait",
                                            !.sent = Append(@, received),
                                            !.observed =
                                                @ \cup {events.dataAvailable[
                                                            events.data[c].name]}],
                            !.dataAvailable[events.data[c].name] = 0,
                            !.dataRead[events.data[c].name] = c]
    /\ UNCHANGED <<runVars, mainVars, loadVars, argumentVars, substitution, buffered,
                   connecting, relativized, threading>>

EventNames == {EventName(c) : c \in Connections}

EventsStart ==
    events = [pc |-> "run",
              dataAvailable |-> [n \in EventNames |-> 0],
              dataRead |-> [n \in EventNames |-> 0],
              data |-> [c \in Connections |->
                           [reader |-> "none", relay |-> "none", name |-> EventName(c),
                            length |-> Unassigned, reads |-> 0, sent |-> <<>>,
                            observed |-> {}]]]

InitEvents ==
    /\ InitMain({FALSE}, {FALSE}, {TRUE}, {-1}, {-1})
    /\ InitRun("none", {Command}, {[n \in {<<88>>, <<89>>, <<90>>} |-> None]})
    /\ LoadIdle
    /\ ArgumentsIdle
    /\ SubstitutionIdle
    /\ BufferedIdle
    /\ ConnectIdle
    /\ RelativizeIdle
    /\ ThreadsIdle
    /\ EventsStart

NextEvents == RelayStarts \/ ReaderRead \/ ReaderResumes \/ RelayStdout

SpecEvents == InitEvents /\ [][NextEvents]_vars

(***************************************************************************)
(* Properties of the events of a connection                                *)
(***************************************************************************)
\* C39: the relay loop and the reader of a connection are woken only by
\* the events that connection's own reader and relay loop have set, never
\* by a signal of a connection that runs at the same time.
C39_PrivateEvents ==
    events.pc # "idle" =>
        \A c \in Connections : events.data[c].observed \subseteq {c}
====
